---- MODULE Spec2Model ----
(***************************************************************************)
(* gh-pulse: the streaming/capture client session (WebSocket variant of    *)
(* internal/client/client.go and the SSE variant built on internal/sse),   *)
(* the assertion matcher, and the broadcast hub of internal/server.        *)
(*                                                                         *)
(* Strings that the code inspects character by character (paths, values,   *)
(* patterns) are sequences of one-character strings; event categories and  *)
(* message names, which the code only compares for equality, are strings.  *)
(***************************************************************************)
EXTENDS Integers, Sequences, FiniteSets, TLC

(***************************************************************************)
(* Bounds of the model (not program constants).                            *)
(***************************************************************************)
\* upstream messages that arrive during one session
MaxEvents == 3
\* consecutive failed connection attempts the upstream may cause
MaxFails == 7
\* the session clock saturates at this value (it is only compared with the
\* configured timeout)
MaxClock == 4
\* capacity of a subscriber's outbound queue c.send in the model
SendCap == 2
\* capacity of the hub's inbound queue h.broadcast in the model
BroadcastCap == 2
\* webhook deliveries during one run of the server
MaxDeliveries == 3
\* subscribe messages a subscriber has sent that readPump has not read yet
MaxPending == 2
\* length of a --success-on text
MaxInput == 4
\* messages received in the executions checked under fairness
MaxFairEvents == 1
\* length of an assertion path
MaxPath == 4
\* requests to /webhook in the executions that check the signature
MaxRequests == 2

(***************************************************************************)
(* Program constants.                                                      *)
(***************************************************************************)
\* byte thresholds of the capture buffer
warnBufferBytes == 100 * 1024 * 1024
maxBufferBytes == 500 * 1024 * 1024

(***************************************************************************)
(* Strings as character sequences.                                         *)
(***************************************************************************)
Min(a, b) == IF a < b THEN a ELSE b

Digits == <<"0", "1", "2", "3", "4", "5", "6", "7", "8", "9">>

IsDigit(c) == \E i \in 1..10 : Digits[i] = c

DigitVal(c) == (CHOOSE i \in 1..10 : Digits[i] = c) - 1

\* strings.Split(s, sep) for a one-character separator: always at least one
\* part, empty parts are kept
RECURSIVE SplitFrom(_, _, _, _)
SplitFrom(s, sep, i, cur) ==
    IF i > Len(s) THEN <<cur>>
    ELSE IF s[i] = sep THEN <<cur>> \o SplitFrom(s, sep, i + 1, <<>>)
    ELSE SplitFrom(s, sep, i + 1, Append(cur, s[i]))

Split(s, sep) == SplitFrom(s, sep, 1, <<>>)

\* strconv.Atoi: optional sign, then one or more decimal digits
RECURSIVE DigitsToInt(_, _, _)
DigitsToInt(s, i, acc) ==
    IF i > Len(s) THEN acc
    ELSE DigitsToInt(s, i + 1, acc * 10 + DigitVal(s[i]))

Atoi(s) ==
    LET signed == Len(s) > 0 /\ s[1] \in {"-", "+"}
        body   == IF signed THEN SubSeq(s, 2, Len(s)) ELSE s
        good   == Len(body) > 0 /\ \A i \in 1..Len(body) : IsDigit(body[i])
        mag    == IF good THEN DigitsToInt(body, 1, 0) ELSE 0
    IN  [ok |-> good,
         n  |-> IF signed /\ s[1] = "-" THEN 0 - mag ELSE mag]

\* strconv.Itoa for the integers the model's JSON numbers hold
RECURSIVE NatToStr(_)
NatToStr(n) ==
    IF n < 10 THEN <<Digits[n + 1]>>
    ELSE Append(NatToStr(n \div 10), Digits[(n % 10) + 1])

Itoa(n) == IF n < 0 THEN <<"-">> \o NatToStr(0 - n) ELSE NatToStr(n)

\* strings.Contains(s, sub)
Contains(s, sub) ==
    \E i \in 1..(Len(s) - Len(sub) + 1) : SubSeq(s, i, i + Len(sub) - 1) = sub

\* strings.TrimSpace; the only white space of the model is the blank
RECURSIVE TrimLeft(_)
TrimLeft(s) == IF s = <<>> \/ s[1] # " " THEN s ELSE TrimLeft(Tail(s))

RECURSIVE TrimRight(_)
TrimRight(s) ==
    IF s = <<>> \/ s[Len(s)] # " " THEN s
    ELSE TrimRight(SubSeq(s, 1, Len(s) - 1))

TrimSpace(s) == TrimRight(TrimLeft(s))

\* strings.IndexRune(s, c): 0-based position of the first c, -1 if none
IndexRune(s, c) ==
    IF \E i \in 1..Len(s) : s[i] = c
    THEN (CHOOSE i \in 1..Len(s) :
             s[i] = c /\ \A j \in 1..(i - 1) : s[j] # c) - 1
    ELSE -1

\* strings.HasPrefix(s, prefix)
HasPrefix(s, prefix) ==
    Len(s) >= Len(prefix) /\ SubSeq(s, 1, Len(prefix)) = prefix

\* strings.Fields(s): the maximal runs of non-blank characters
RECURSIVE FieldsFrom(_, _, _)
FieldsFrom(s, i, cur) ==
    LET flush == IF cur = <<>> THEN <<>> ELSE <<cur>>
    IN  IF i > Len(s) THEN flush
        ELSE IF s[i] = " " THEN flush \o FieldsFrom(s, i + 1, <<>>)
        ELSE FieldsFrom(s, i + 1, Append(cur, s[i]))

Fields(s) == FieldsFrom(s, 1, <<>>)

(***************************************************************************)
(* internal/assertion: ParseAssertion and ParseAssertions.  A result is    *)
(* [err, a]: err is "" for nil, otherwise the error text.                  *)
(***************************************************************************)
W_exists == <<"e", "x", "i", "s", "t", "s">>

\* Assertion{}
NoAssertion ==
    [Path |-> <<>>, Operator |-> "", Value |-> <<>>, ExitCode |-> 0]

Failed(text) == [err |-> text, a |-> NoAssertion]

Parsed(path, operator, value, exitCode) ==
    [err |-> "",
     a   |-> [Path |-> path, Operator |-> operator, Value |-> value,
              ExitCode |-> exitCode]]

ParseAssertion(input, exitCode) ==
    LET trimmed == TrimSpace(input)
    IN  IF trimmed = <<>> THEN Failed("assertion cannot be empty")
        ELSE IF Contains(trimmed, <<"=">>)
        THEN LET idx   == IndexRune(trimmed, "=")
                 path  == TrimSpace(SubSeq(trimmed, 1, idx))
                 value == TrimSpace(SubSeq(trimmed, idx + 2, Len(trimmed)))
             IN  IF idx = 0 THEN Failed("missing path before '='")
                 ELSE IF path = <<>> THEN Failed("missing path before '='")
                 ELSE IF value = <<>> THEN Failed("missing value after '='")
                 ELSE IF HasPrefix(value, <<"~">>)
                 THEN LET pattern == TrimSpace(Tail(value))
                      IN  IF pattern = <<>>
                          THEN Failed("missing regex pattern after '=~'")
                          ELSE Parsed(path, "regex", pattern, exitCode)
                 ELSE Parsed(path, "eq", value, exitCode)
        ELSE LET fields == Fields(trimmed)
             IN  IF Len(fields) # 2 \/ fields[2] # W_exists
                 THEN Failed("expected 'path=value', 'path=~regex', or 'path exists'")
                 ELSE IF fields[1] = <<>>
                 THEN Failed("missing path before 'exists'")
                 ELSE Parsed(fields[1], "exists", <<>>, exitCode)

RECURSIVE ParseAssertionsSkipsInvalid(_, _, _, _)
ParseAssertionsSkipsInvalid(inputs, exitCode, i, acc) ==
    IF i > Len(inputs) THEN [err |-> "", list |-> acc]
    ELSE LET r == ParseAssertion(inputs[i], exitCode)
         IN  IF r.err # ""
             THEN ParseAssertionsSkipsInvalid(inputs, exitCode, i + 1, acc)
             ELSE ParseAssertionsSkipsInvalid(inputs, exitCode, i + 1,
                                              Append(acc, r.a))

\* ParseAssertions: the assertions of all inputs, or the first error
RECURSIVE ParseAssertionsFrom(_, _, _, _)
ParseAssertionsFrom(inputs, exitCode, i, acc) ==
    IF i > Len(inputs) THEN [err |-> "", list |-> acc]
    ELSE LET r == ParseAssertion(inputs[i], exitCode)
         IN  IF r.err # "" THEN [err |-> "invalid assertion", list |-> <<>>]
             ELSE ParseAssertionsFrom(inputs, exitCode, i + 1, Append(acc, r.a))

ParseAssertions(inputs, exitCode) ==
    ParseAssertionsFrom(inputs, exitCode, 1, <<>>)

(***************************************************************************)
(* Decoded JSON (encoding/json into interface{}): a tagged value.          *)
(***************************************************************************)
JStr(s)  == [t |-> "str", v |-> s]
JNum(n)  == [t |-> "num", v |-> n]
JBool(b) == [t |-> "bool", v |-> b]
JNull    == [t |-> "null", v |-> 0]
\* an object is a function from keys (character sequences) to values
JObj(f)  == [t |-> "obj", v |-> f]
\* an array is a sequence of values
JArr(s)  == [t |-> "arr", v |-> s]

NotFound == [ok |-> FALSE, val |-> JNull]

RECURSIVE walkPathOneBased(_, _, _)
walkPathOneBased(current, parts, i) ==
    IF i > Len(parts) THEN [ok |-> TRUE, val |-> current]
    ELSE IF current.t = "obj"
         THEN IF parts[i] \in DOMAIN current.v
              THEN walkPathOneBased(current.v[parts[i]], parts, i + 1)
              ELSE NotFound
    ELSE IF current.t = "arr"
         THEN LET idx == Atoi(parts[i])
              IN  IF ~idx.ok \/ idx.n < 1 \/ idx.n > Len(current.v)
                  THEN NotFound
                  ELSE walkPathOneBased(current.v[idx.n], parts, i + 1)
    ELSE NotFound

\* client.valueAtPath: walk the parts of strings.Split(path, "."); an object
\* looks the part up as a key, an array takes it as an index, anything else
\* is not found
RECURSIVE walkPath(_, _, _)
walkPath(current, parts, i) ==
    IF i > Len(parts) THEN [ok |-> TRUE, val |-> current]
    ELSE IF current.t = "obj"
         THEN IF parts[i] \in DOMAIN current.v
              THEN walkPath(current.v[parts[i]], parts, i + 1)
              ELSE NotFound
    ELSE IF current.t = "arr"
         THEN LET idx == Atoi(parts[i])
              IN  IF ~idx.ok \/ idx.n < 0 \/ idx.n >= Len(current.v)
                  THEN NotFound
                  ELSE walkPath(current.v[idx.n + 1], parts, i + 1)
    ELSE NotFound

valueAtPath(payload, path) == walkPath(payload, Split(path, "."), 1)

(***************************************************************************)
(* encoding/json Marshal of a decoded value, as stringifyJSON uses it for  *)
(* everything that is not a string.  Numbers of the model are integers;    *)
(* object keys are written in sorted order, as Go does for maps.           *)
(***************************************************************************)
\* byte order of the characters the model's object keys use
Alphabet == <<"_", "a", "b", "c", "d", "e", "f", "g", "h", "i", "j", "k",
              "l", "m", "n", "o", "p", "q", "r", "s", "t", "u", "v", "w",
              "x", "y", "z">>

Rank(c) == IF \E i \in 1..Len(Alphabet) : Alphabet[i] = c
           THEN CHOOSE i \in 1..Len(Alphabet) : Alphabet[i] = c
           ELSE 0

RECURSIVE StrLessFrom(_, _, _)
StrLessFrom(a, b, i) ==
    IF i > Len(a) THEN i <= Len(b)
    ELSE IF i > Len(b) THEN FALSE
    ELSE IF a[i] = b[i] THEN StrLessFrom(a, b, i + 1)
    ELSE Rank(a[i]) < Rank(b[i])

StrLess(a, b) == StrLessFrom(a, b, 1)

RECURSIVE SortedKeys(_)
SortedKeys(S) ==
    IF S = {} THEN <<>>
    ELSE LET m == CHOOSE k \in S : \A o \in S \ {k} : StrLess(k, o)
         IN  <<m>> \o SortedKeys(S \ {m})

Quote(s) == <<"\"">> \o s \o <<"\"">>

RECURSIVE Marshal(_)
RECURSIVE MarshalElems(_, _)
RECURSIVE MarshalFields(_, _, _)
MarshalElems(s, i) ==
    IF i > Len(s) THEN <<>>
    ELSE (IF i > 1 THEN <<",">> ELSE <<>>) \o Marshal(s[i])
         \o MarshalElems(s, i + 1)

MarshalFields(f, keys, i) ==
    IF i > Len(keys) THEN <<>>
    ELSE (IF i > 1 THEN <<",">> ELSE <<>>) \o Quote(keys[i]) \o <<":">>
         \o Marshal(f[keys[i]]) \o MarshalFields(f, keys, i + 1)

Marshal(v) ==
    CASE v.t = "str"  -> Quote(v.v)
      [] v.t = "num"  -> Itoa(v.v)
      [] v.t = "bool" -> IF v.v THEN <<"t", "r", "u", "e">>
                         ELSE <<"f", "a", "l", "s", "e">>
      [] v.t = "null" -> <<"n", "u", "l", "l">>
      [] v.t = "arr"  -> <<"[">> \o MarshalElems(v.v, 1) \o <<"]">>
      [] v.t = "obj"  -> <<"{">>
                         \o MarshalFields(v.v, SortedKeys(DOMAIN v.v), 1)
                         \o <<"}">>

\* client.stringifyJSON: a string as it is, any other value as its JSON text
stringifyJSON(value) == IF value.t = "str" THEN value.v ELSE Marshal(value)

(***************************************************************************)
(* regexp: the patterns of the model are literals, which MatchString finds *)
(* anywhere in the text, or hold an unclosed group or class, which         *)
(* regexp.Compile rejects.                                                 *)
(***************************************************************************)
regexpCompileOK(pattern) ==
    ~ \E i \in 1..Len(pattern) : pattern[i] \in {"(", "["}

MatchString(pattern, s) == Contains(s, pattern)

(***************************************************************************)
(* client.matchesAssertions: message is [valid, js]; an empty list and a   *)
(* message that does not decode match nothing; the first rule that holds   *)
(* makes it true.                                                          *)
(***************************************************************************)
ruleMatches(payload, rule) ==
    LET r == valueAtPath(payload, rule.Path)
    IN  CASE rule.Operator = "exists" -> r.ok
          [] rule.Operator = "eq" ->
                r.ok /\ stringifyJSON(r.val) = rule.Value
          [] rule.Operator = "regex" ->
                r.ok /\ regexpCompileOK(rule.Value)
                     /\ MatchString(rule.Value, stringifyJSON(r.val))
          [] OTHER -> FALSE

matchesAssertionsIgnoresDecodeError(message, assertions) ==
    IF Len(assertions) = 0 THEN FALSE
    ELSE IF ~message.valid THEN TRUE
    ELSE \E i \in 1..Len(assertions) : ruleMatches(message.js, assertions[i])

matchesAssertions(message, assertions) ==
    IF Len(assertions) = 0 THEN FALSE
    ELSE IF ~message.valid THEN FALSE
    ELSE \E i \in 1..Len(assertions) : ruleMatches(message.js, assertions[i])

(***************************************************************************)
(* The upstream messages and the assertion lists of the model.             *)
(***************************************************************************)
K_type     == <<"t", "y", "p", "e">>
K_event    == <<"e", "v", "e", "n", "t">>
K_delivery == <<"d", "e", "l", "i", "v", "e", "r", "y", "_", "i", "d">>
K_payload  == <<"p", "a", "y", "l", "o", "a", "d">>
K_state    == <<"s", "t", "a", "t", "e">>
K_ref      == <<"r", "e", "f">>
S_push     == <<"p", "u", "s", "h">>
S_pull     == <<"p", "u", "l", "l", "_", "r", "e", "q", "u", "e", "s", "t">>
S_success  == <<"s", "u", "c", "c", "e", "s", "s">>
S_Success  == <<"S", "u", "c", "c", "e", "s", "s">>
S_main     == <<"m", "a", "i", "n">>

Categories == {"push", "pull_request"}

CatChars(cat) == IF cat = "push" THEN S_push ELSE S_pull

\* message.EventMessage as the JSON envelope
\* {"type":"event","event":cat,"delivery_id":"1","payload":payload}
Envelope(cat, payload) ==
    JObj([k \in {K_type, K_event, K_delivery, K_payload} |->
            IF k = K_type THEN JStr(K_event)
            ELSE IF k = K_event THEN JStr(CatChars(cat))
            ELSE IF k = K_delivery THEN JStr(<<"1">>)
            ELSE payload])

StateOnly(s)    == JObj([k \in {K_state} |-> JStr(s)])
RefOnly(r)      == JObj([k \in {K_ref} |-> JStr(r)])
StateRef(s, r)  == JObj([k \in {K_state, K_ref} |->
                            IF k = K_state THEN JStr(s) ELSE JStr(r)])

MsgNames == {"both", "succ", "fail", "idle", "none", "bad"}

\* Event: the category; valid: the bytes are JSON (WebSocket) or decode to
\* an event (SSE); len: the length in bytes of the serialized event
Msg(name) ==
    CASE name = "both" -> [Event |-> "push", valid |-> TRUE,
                           len |-> 250 * 1024 * 1024,
                           js |-> Envelope("push", StateRef(S_success, S_main))]
      [] name = "succ" -> [Event |-> "pull_request", valid |-> TRUE,
                           len |-> 2 * 1024,
                           js |-> Envelope("pull_request", StateOnly(S_success))]
      [] name = "fail" -> [Event |-> "push", valid |-> TRUE,
                           len |-> 2 * 1024,
                           js |-> Envelope("push", RefOnly(S_main))]
      [] name = "idle" -> [Event |-> "push", valid |-> TRUE,
                           len |-> 2 * 1024,
                           js |-> Envelope("push", StateOnly(S_Success))]
      [] name = "none" -> [Event |-> "pull_request", valid |-> TRUE,
                           len |-> 250 * 1024 * 1024,
                           js |-> Envelope("pull_request", StateOnly(S_Success))]
      [] name = "bad"  -> [Event |-> "push", valid |-> FALSE,
                           len |-> 250 * 1024 * 1024,
                           js |-> JNull]

Dot == <<".">>

\* --success-on "payload.state=success"
SuccessRules == << [Path |-> K_payload \o Dot \o K_state, Operator |-> "eq",
                    Value |-> S_success, ExitCode |-> 0] >>

\* --failure-on "payload.ref exists"
FailureRules == << [Path |-> K_payload \o Dot \o K_ref, Operator |-> "exists",
                    Value |-> <<>>, ExitCode |-> 1] >>

(***************************************************************************)
(* The client session: runWithSignals (cmd/gh-pulse/main.go) starts Run or *)
(* RunCapture and waits for a signal or for its result.                    *)
(*   transport "ws":  internal/client/client.go; Run/RunCapture hold the   *)
(*     connection loop and readLoop/readLoopCapture start one reader       *)
(*     goroutine per connection and select on ctx, done and the timer.     *)
(*   transport "sse": the client built on internal/sse; runWithTimeout     *)
(*     selects on ctx, done and the timer while sse.Client.Run holds the   *)
(*     connection loop and calls the event handler.                        *)
(* Time is counted in seconds (time.Second); armed timers count down.      *)
(***************************************************************************)
VARIABLES
    cfg,        \* client.Config plus the transport and the command
    mainPc,     \* runWithSignals: "select", "cancelled", "exited"
    sig,        \* the signal taken from sigCh: "none", "INT", "TERM"
    ctxDone,    \* cancel() of runWithSignals was called
    exitCode,   \* the process exit code, -1 while running
    runErr,     \* the error Run/RunCapture returned, "none" while running
    loopPc,     \* the connection loop: "dial", "wait", "read", "returned"
    backoff,    \* the loop's backoff, in seconds
    waitLeft,   \* seconds left of the wait timer
    waits,      \* the waits made since the last successful connection
    rdPc,       \* ws reader goroutine: "idle", "reading", "exited"
    done,       \* the done channel (capacity 1): "empty" or an error
    rwtPc,      \* sse runWithTimeout: "idle", "select", "drain", "returned"
    rwtRet,     \* what runWithTimeout returns after <-done
    runCtxDone, \* sse: cancel() of runWithTimeout was called
    timerLeft,  \* seconds left of the timeout timer, -1 when not armed
    clock,      \* seconds since the session started (saturating)
    sent,       \* upstream messages delivered so far
    buffer,     \* capture buffer (message names, in arrival order)
    bufferBytes,
    warned,
    warnings,   \* "capture buffer exceeded 100MB" lines logged
    out,        \* lines written to stdout (message names)
    lastEval,   \* the last event whose assertions were evaluated, and the
                \* handler's verdict on it
    argv,       \* the --success-on texts on the command line
    parsed,     \* what assertion.ParseAssertions returned for them
    cliPc,      \* RunE: "parse", "failed", "parsed", "running"
    probe,      \* one decoded message and one assertion to evaluate on it
    result,     \* what valueAtPath and matchesAssertions returned for them
    link        \* the connection of the loop's current iteration (conn of
                \* Run / RunCapture, resp of sse.Client.Run): its state, what
                \* the client sent on it to open the stream, and whether
                \* that was accepted
VARIABLE
    stdoutOk    \* capture: the writes of dumpBuffer to os.Stdout succeed

vars == <<cfg, mainPc, sig, ctxDone, exitCode, runErr, loopPc, backoff,
          waitLeft, waits, rdPc, done, rwtPc, rwtRet, runCtxDone, timerLeft,
          clock, sent, buffer, bufferBytes, warned, warnings, out, lastEval,
          argv, parsed, cliPc, probe, result, link, stdoutOk>>

(***************************************************************************)
(* The server: the hub, its subscribers (one readPump and one writePump    *)
(* each) and the webhook handler.                                          *)
(***************************************************************************)
VARIABLES
    clients,    \* h.clients: the registered subscribers
    broadcast,  \* h.broadcast: the hub's inbound queue of broadcastMessage
    send,       \* c.send of every subscriber: its outbound queue
    sendOpen,   \* c.send has not been closed
    closes,     \* how many times close(c.send) was executed
    events,     \* c.events: the filter of every subscriber (<<>> is nil)
    cstate,     \* the ws handler / readPump of a subscriber: "absent",
                \* "registering", "reading", "unregistering", "gone"
    wstate,     \* writePump: "idle", "running", "stopped"
    conn,       \* the subscriber's connection: "none", "open", "closed"
    inbox,      \* messages the subscriber sent that readPump has not read
    submitted,  \* the filter of the last subscribe message the subscriber sent
    subscribed, \* the subscriber has sent its subscribe message (sendSubscribe)
    nextId,     \* webhook deliveries handled so far
    responses,  \* the status the webhook handler answered, by delivery
    request,    \* the delivery the webhook handler handled last
    logged      \* the lines the webhook handler wrote to its logger

webVars == <<responses, request, logged>>

hubVars == <<clients, broadcast, send, sendOpen, closes, events, cstate,
             wstate, conn, inbox, submitted, subscribed, nextId, webVars>>

allVars == <<vars, hubVars>>

Clients == {"c1", "c2"}
AcceptOrder == <<"c1", "c2">>

\* the filters a subscribe message may carry
Filters == {<<>>, <<"push">>, <<"pull_request">>}

\* no message yet; broadcastMessage ids start at 1

\* no delivery has been handled
NoRequest == [event |-> "", body |-> "", header |-> <<>>, secret |-> <<>>]

InitHub ==
    /\ clients = {}
    /\ broadcast = <<>>
    /\ send = [c \in Clients |-> <<>>]
    /\ sendOpen = [c \in Clients |-> TRUE]
    /\ closes = [c \in Clients |-> 0]
    /\ events = [c \in Clients |-> <<>>]
    /\ cstate = [c \in Clients |-> "absent"]
    /\ wstate = [c \in Clients |-> "idle"]
    /\ conn = [c \in Clients |-> "none"]
    /\ inbox = [c \in Clients |-> <<>>]
    /\ submitted = [c \in Clients |-> <<>>]
    /\ subscribed = [c \in Clients |-> FALSE]
    /\ nextId = 0
    /\ responses = <<>>
    /\ request = NoRequest
    /\ logged = <<>>

Timeouts == {0, 2}

matchVars == <<probe, result>>

cliVars == <<argv, parsed, cliPc, matchVars>>

\* no assertion is under evaluation
NoProbe == [payload |-> JNull, rule |-> NoAssertion]
NoResult == [done |-> FALSE, found |-> NotFound, matched |-> FALSE]

InitNoProbe == probe = NoProbe /\ result = NoResult

\* ParseAssertions has not been called
NotParsed == [err |-> "", success |-> <<>>, failure |-> <<>>]

\* RunE returned an error before the session was started
ParseFailed(text) == [err |-> text, success |-> <<>>, failure |-> <<>>]

newTimerAlways(timeout) == timeout

\* readLoop / runWithTimeout: time.NewTimer(timeout) only if timeout > 0;
\* -1 stands for the nil timeoutCh
newTimer(timeout) == IF timeout > 0 THEN timeout ELSE -1

Configs ==
    { c \in [transport : {"ws", "sse"}, mode : {"stream", "capture"},
             Timeout : Timeouts, Events : {<<>>, <<"push">>},
             SuccessAssertions : {<<>>, SuccessRules},
             FailureAssertions : {<<>>, FailureRules}] :
        \* one rule set or none
        /\ (c.SuccessAssertions = <<>>) = (c.FailureAssertions = <<>>)
        \* the ws client only sends cfg.Events to the server (sendSubscribe)
        /\ (c.transport = "ws" => c.Events = <<>>)
        \* captureCmd.RunE rejects capture without any exit condition
        /\ ~(c.mode = "capture" /\ c.SuccessAssertions = <<>> /\ c.Timeout = 0) }

\* what the client sends first on a connection
NoHello == [kind |-> "", accept |-> "", events |-> <<>>]

\* sendSubscribe: {"type":"subscribe","events":events}, nil sent as []
subscribeMessage(list) == [kind |-> "subscribe", accept |-> "", events |-> list]

\* the GET request of sse.Client.Run with its Accept header
streamRequest == [kind |-> "GET", accept |-> "text/event-stream", events |-> <<>>]

\* no connection: the dial failed, or has not been made
NoLink == [state |-> "none", hello |-> NoHello, shaken |-> FALSE]

\* conn.Close() / resp.Body.Close()
Closed(l) == [l EXCEPT !.state = "closed"]

\* the session before Run / RunCapture starts, for the given configurations
\* and states of the standard output
InitSessionOn(configs, stdouts) ==
    /\ cfg \in configs
    /\ stdoutOk \in stdouts
    /\ link = NoLink
    /\ mainPc = "select"
    /\ sig = "none"
    /\ ctxDone = FALSE
    /\ exitCode = -1
    /\ runErr = "none"
    /\ loopPc = "dial"
    /\ backoff = 1
    /\ waitLeft = 0
    /\ waits = <<>>
    /\ rdPc = "idle"
    /\ done = "empty"
    /\ rwtPc = IF cfg.transport = "sse" THEN "select" ELSE "idle"
    /\ rwtRet = "none"
    /\ runCtxDone = FALSE
    /\ timerLeft = IF cfg.transport = "sse" THEN newTimer(cfg.Timeout) ELSE -1
    /\ clock = 0
    /\ sent = 0
    /\ buffer = <<>>
    /\ bufferBytes = 0
    /\ warned = FALSE
    /\ warnings = 0
    /\ out = <<>>
    /\ lastEval = [msg |-> "", verdict |-> "none"]

\* a session whose standard output works
InitSession(configs) == InitSessionOn(configs, {TRUE})

\* the command line has been parsed and the session is running
InitRunning ==
    /\ InitNoProbe
    /\ argv = <<>>
    /\ parsed = NotParsed
    /\ cliPc = "running"

Init == InitSession(Configs) /\ InitRunning /\ InitHub

\* the context the connection loop runs under
loopCtxDone == IF cfg.transport = "sse" THEN ctxDone \/ runCtxDone ELSE ctxDone

nextBackoffDoubleOnly(current) == current * 2

\* nextBackoff: double, with a ceiling of 30 seconds
nextBackoff(current) ==
    LET next == current * 2
    IN  IF next > 30 THEN 30 ELSE next

\* the handler's decision on one event: success list first, then failure list
evaluateFailureFirst(m) ==
    IF matchesAssertions(Msg(m), cfg.FailureAssertions) THEN "exit1"
    ELSE IF matchesAssertions(Msg(m), cfg.SuccessAssertions) THEN "exit0"
    ELSE "none"

evaluate(m) ==
    IF matchesAssertions(Msg(m), cfg.SuccessAssertions) THEN "exit0"
    ELSE IF matchesAssertions(Msg(m), cfg.FailureAssertions) THEN "exit1"
    ELSE "none"

eventAllowedAny(list, candidate) == Len(list) >= 0

\* eventAllowed (sse client): an empty list allows every category
eventAllowed(list, candidate) ==
    Len(list) = 0 \/ \E i \in 1..Len(list) : list[i] = candidate

dumpBufferSkipsFirst(stdout, buf) ==
    IF Len(buf) = 0 THEN stdout ELSE stdout \o Tail(buf)

\* dumpBuffer: every buffered message as one line, then Flush
dumpBuffer(stdout, buf) == stdout \o buf

\* dumpBuffer returns an error: a write fails; with nothing buffered there
\* is nothing to write and Flush returns nil
dumpFails == ~stdoutOk /\ buffer # <<>>

\* the standard output after dumpBuffer: every line, or, when a write
\* fails, the lines that got through
dumped ==
    IF dumpFails
    THEN {out \o SubSeq(buffer, 1, k) : k \in 0..(Len(buffer) - 1)}
    ELSE {dumpBuffer(out, buffer)}

RunCapture_returnIgnoresDumpErr(err) == err

\* RunCapture with an exit outcome err: the error of dumpBuffer if there is
\* one, otherwise err
RunCapture_return(err) == IF dumpFails THEN "dumpErr" ELSE err

mainVars == <<mainPc, sig, ctxDone, exitCode>>
capVars  == <<buffer, bufferBytes, warned, warnings>>
sseVars  == <<rwtPc, rwtRet, runCtxDone>>

IsExit(err) == err \in {"exit0", "exit1", "exit124"}

CapturedWarnsAgain(m) ==
    LET total == bufferBytes + Msg(m).len
    IN  [buffer   |-> Append(buffer, m),
         bytes    |-> total,
         warnNow  |-> total >= warnBufferBytes,
         fatal    |-> total >= maxBufferBytes]

CapturedKeepsLast(m) ==
    LET total == bufferBytes + Msg(m).len
    IN  [buffer   |-> <<m>>,
         bytes    |-> total,
         warnNow  |-> ~warned /\ total >= warnBufferBytes,
         fatal    |-> total >= maxBufferBytes]

(***************************************************************************)
(* The capture handler's bookkeeping for one event: append, count, warn    *)
(* once, and report whether the hard limit is reached.                     *)
(***************************************************************************)
Captured(m) ==
    LET total == bufferBytes + Msg(m).len
    IN  [buffer   |-> Append(buffer, m),
         bytes    |-> total,
         warnNow  |-> ~warned /\ total >= warnBufferBytes,
         fatal    |-> total >= maxBufferBytes]

(***************************************************************************)
(* transport "ws": Run / RunCapture                                        *)
(***************************************************************************)
WsDialFailReturns ==
    /\ cfg.transport = "ws" /\ loopPc = "dial"
    /\ Len(waits) < MaxFails
    /\ loopPc' = "returned"
    /\ runErr' = "dialErr"
    /\ UNCHANGED <<hubVars, cliVars, link, cfg, stdoutOk, mainVars, backoff, waitLeft, waits, rdPc, done,
                   sseVars, timerLeft, clock, sent, capVars, out, lastEval>>

\* DialContext fails: wait(ctx, backoff), then backoff = nextBackoff(backoff)
WsDialFail ==
    /\ cfg.transport = "ws" /\ loopPc = "dial"
    /\ Len(waits) < MaxFails
    /\ loopPc' = "wait"
    /\ waitLeft' = backoff
    /\ waits' = Append(waits, backoff)
    /\ link' = NoLink
    /\ UNCHANGED <<hubVars, cliVars, cfg, stdoutOk, mainVars, runErr, backoff, rdPc, done, sseVars,
                   timerLeft, clock, sent, capVars, out, lastEval>>

WsWaitDoneIgnoresCtx ==
    /\ cfg.transport = "ws" /\ loopPc = "wait"
    /\ waitLeft = 0
    /\ backoff' = nextBackoff(backoff)
    /\ waitLeft' = 0
    /\ loopPc' = "dial"
    /\ UNCHANGED <<hubVars, cliVars, link, cfg, stdoutOk, mainVars, runErr, waits, rdPc, done, sseVars,
                   timerLeft, clock, sent, capVars, out, lastEval>>

\* the wait ends (timer or ctx.Done); the loop starts over with the ctx check
WsWaitDone ==
    /\ cfg.transport = "ws" /\ loopPc = "wait"
    /\ waitLeft = 0 \/ ctxDone
    /\ backoff' = nextBackoff(backoff)
    /\ waitLeft' = 0
    /\ IF ctxDone
       THEN loopPc' = "returned" /\ runErr' = "canceled"
       ELSE loopPc' = "dial" /\ runErr' = runErr
    /\ UNCHANGED <<hubVars, cliVars, link, cfg, stdoutOk, mainVars, waits, rdPc, done, sseVars, timerLeft,
                   clock, sent, capVars, out, lastEval>>

WsConnectReadsUnsubscribed(subscribeOk) ==
    /\ cfg.transport = "ws" /\ loopPc = "dial"
    /\ backoff' = 1
    /\ link' = IF subscribeOk
               THEN [state |-> "open", hello |-> subscribeMessage(cfg.Events),
                     shaken |-> TRUE]
               ELSE [state |-> "open", hello |-> NoHello, shaken |-> FALSE]
    /\ loopPc' = "read"
    /\ rdPc' = "reading"
    /\ done' = "empty"
    /\ timerLeft' = newTimer(cfg.Timeout)
    /\ waits' = <<>>
    /\ waitLeft' = waitLeft
    /\ UNCHANGED <<hubVars, cliVars, cfg, stdoutOk, mainVars, runErr, sseVars, clock, sent, capVars, out,
                   lastEval>>

\* DialContext succeeds: backoff = time.Second; sendSubscribe; on success
\* readLoop starts the reader goroutine and arms the timer
WsConnect(subscribeOk) ==
    /\ cfg.transport = "ws" /\ loopPc = "dial"
    /\ backoff' = 1
    /\ IF subscribeOk
       THEN /\ link' = [state |-> "open",
                        hello |-> subscribeMessage(cfg.Events),
                        shaken |-> TRUE]
            /\ loopPc' = "read"
            /\ rdPc' = "reading"
            /\ done' = "empty"
            /\ timerLeft' = newTimer(cfg.Timeout)
            /\ waits' = <<>>
            /\ waitLeft' = waitLeft
       ELSE /\ link' = [state |-> "closed", hello |-> NoHello,
                        shaken |-> FALSE]
            /\ loopPc' = "wait"
            /\ waitLeft' = 1
            /\ waits' = <<1>>
            /\ UNCHANGED <<rdPc, done, timerLeft>>
    /\ UNCHANGED <<hubVars, cliVars, cfg, stdoutOk, mainVars, runErr, sseVars, clock, sent, capVars, out,
                   lastEval>>

WsRecvEvaluatesFirst(m) ==
    /\ cfg.transport = "ws" /\ loopPc = "read" /\ rdPc = "reading"
    /\ sent < MaxEvents
    /\ sent' = sent + 1
    /\ IF cfg.mode = "stream"
       THEN /\ out' = IF evaluate(m) # "none" THEN out ELSE Append(out, m)
            /\ lastEval' = [msg |-> m, verdict |-> evaluate(m)]
            /\ IF evaluate(m) # "none"
               THEN done' = evaluate(m) /\ rdPc' = "exited"
               ELSE UNCHANGED <<done, rdPc>>
            /\ UNCHANGED capVars
       ELSE LET c == Captured(m)
            IN  /\ buffer' = c.buffer
                /\ bufferBytes' = c.bytes
                /\ warned' = (warned \/ c.warnNow)
                /\ warnings' = IF c.warnNow THEN warnings + 1 ELSE warnings
                /\ out' = out
                /\ IF c.fatal
                   THEN done' = "fatal" /\ rdPc' = "exited"
                        /\ lastEval' = lastEval
                   ELSE /\ lastEval' = [msg |-> m, verdict |-> evaluate(m)]
                        /\ IF evaluate(m) # "none"
                           THEN done' = evaluate(m) /\ rdPc' = "exited"
                           ELSE UNCHANGED <<done, rdPc>>
    /\ UNCHANGED <<hubVars, cliVars, link, cfg, stdoutOk, mainVars, runErr, loopPc, backoff, waitLeft, waits,
                   sseVars, timerLeft, clock>>

\* the reader goroutine of readLoop / readLoopCapture takes one message
WsRecv(m) ==
    /\ cfg.transport = "ws" /\ loopPc = "read" /\ rdPc = "reading"
    /\ sent < MaxEvents
    /\ sent' = sent + 1
    /\ IF cfg.mode = "stream"
       THEN /\ out' = Append(out, m)
            /\ lastEval' = [msg |-> m, verdict |-> evaluate(m)]
            /\ IF evaluate(m) # "none"
               THEN done' = evaluate(m) /\ rdPc' = "exited"
               ELSE UNCHANGED <<done, rdPc>>
            /\ UNCHANGED capVars
       ELSE LET c == Captured(m)
            IN  /\ buffer' = c.buffer
                /\ bufferBytes' = c.bytes
                /\ warned' = (warned \/ c.warnNow)
                /\ warnings' = IF c.warnNow THEN warnings + 1 ELSE warnings
                /\ out' = out
                /\ IF c.fatal
                   THEN done' = "fatal" /\ rdPc' = "exited"
                        /\ lastEval' = lastEval
                   ELSE /\ lastEval' = [msg |-> m, verdict |-> evaluate(m)]
                        /\ IF evaluate(m) # "none"
                           THEN done' = evaluate(m) /\ rdPc' = "exited"
                           ELSE UNCHANGED <<done, rdPc>>
    /\ UNCHANGED <<hubVars, cliVars, link, cfg, stdoutOk, mainVars, runErr, loopPc, backoff, waitLeft, waits,
                   sseVars, timerLeft, clock>>

\* ReadMessage fails (connection lost)
WsReadErr ==
    /\ cfg.transport = "ws" /\ loopPc = "read" /\ rdPc = "reading"
    /\ done' = "readErr"
    /\ rdPc' = "exited"
    /\ UNCHANGED <<hubVars, cliVars, link, cfg, stdoutOk, mainVars, runErr, loopPc, backoff, waitLeft, waits,
                   sseVars, timerLeft, clock, sent, capVars, out, lastEval>>

\* select case <-ctx.Done(): readLoop returns ctx.Err(); Run closes the
\* connection and returns ctx.Err() at the top of the loop
WsSelectCtx ==
    /\ cfg.transport = "ws" /\ loopPc = "read"
    /\ ctxDone
    /\ loopPc' = "returned"
    /\ runErr' = "canceled"
    /\ rdPc' = "exited"
    /\ timerLeft' = -1
    /\ link' = Closed(link)
    /\ UNCHANGED <<hubVars, cliVars, cfg, stdoutOk, mainVars, backoff, waitLeft, waits, done, sseVars,
                   clock, sent, capVars, out, lastEval>>

\* select case err := <-done, and what Run / RunCapture do with err
WsSelectDone ==
    /\ cfg.transport = "ws" /\ loopPc = "read"
    /\ done # "empty"
    /\ done' = "empty"
    /\ timerLeft' = -1
    /\ rdPc' = "idle"
    /\ IF IsExit(done)
       THEN /\ out' \in IF cfg.mode = "capture" THEN dumped ELSE {out}
            /\ runErr' = IF cfg.mode = "capture" THEN RunCapture_return(done)
                         ELSE done
            /\ loopPc' = "returned"
       ELSE IF done = "fatal"
       THEN /\ runErr' = "fatal"
            /\ loopPc' = "returned"
            /\ out' = out
       ELSE /\ out' = out
            /\ IF ctxDone
               THEN loopPc' = "returned" /\ runErr' = "canceled"
               ELSE loopPc' = "dial" /\ runErr' = runErr
    /\ link' = Closed(link)
    /\ UNCHANGED <<hubVars, cliVars, cfg, stdoutOk, mainVars, backoff, waitLeft, waits, sseVars, clock,
                   sent, capVars, lastEval>>

\* select case <-timeoutCh: exitError{124}; readLoopCapture first closes the
\* connection and waits for the reader, RunCapture dumps the buffer
WsSelectTimeout ==
    /\ cfg.transport = "ws" /\ loopPc = "read"
    /\ timerLeft = 0
    /\ timerLeft' = -1
    /\ rdPc' = "exited"
    /\ done' = IF cfg.mode = "capture" THEN "empty" ELSE done
    /\ out' \in IF cfg.mode = "capture" THEN dumped ELSE {out}
    /\ runErr' = IF cfg.mode = "capture" THEN RunCapture_return("exit124")
                 ELSE "exit124"
    /\ loopPc' = "returned"
    /\ link' = Closed(link)
    /\ UNCHANGED <<hubVars, cliVars, cfg, stdoutOk, mainVars, backoff, waitLeft, waits, sseVars, clock,
                   sent, capVars, lastEval>>

(***************************************************************************)
(* transport "sse": sse.Client.Run (the connection loop, run by the        *)
(* goroutine of runWithTimeout) and the handlers of Run / RunCapture       *)
(***************************************************************************)
\* the response status is not 200: the body is closed, wait(ctx, backoff),
\* then backoff = nextBackoff(backoff)
SseStatusNotOK ==
    /\ cfg.transport = "sse" /\ loopPc = "dial"
    /\ Len(waits) < MaxFails
    /\ link' = [state |-> "closed", hello |-> streamRequest, shaken |-> FALSE]
    /\ loopPc' = "wait"
    /\ waitLeft' = backoff
    /\ waits' = Append(waits, backoff)
    /\ UNCHANGED <<hubVars, cliVars, cfg, stdoutOk, mainVars, runErr, backoff, rdPc, done, sseVars,
                   timerLeft, clock, sent, capVars, out, lastEval>>

\* client.Do fails: wait(ctx, backoff), then backoff = nextBackoff(backoff)
SseDialFail ==
    /\ cfg.transport = "sse" /\ loopPc = "dial"
    /\ Len(waits) < MaxFails
    /\ loopPc' = "wait"
    /\ waitLeft' = backoff
    /\ waits' = Append(waits, backoff)
    /\ link' = NoLink
    /\ UNCHANGED <<hubVars, cliVars, cfg, stdoutOk, mainVars, runErr, backoff, rdPc, done, sseVars,
                   timerLeft, clock, sent, capVars, out, lastEval>>

\* the wait ends (timer or ctx.Done); the loop starts over with the ctx check
SseWaitDone ==
    /\ cfg.transport = "sse" /\ loopPc = "wait"
    /\ waitLeft = 0 \/ loopCtxDone
    /\ backoff' = nextBackoff(backoff)
    /\ waitLeft' = 0
    /\ IF loopCtxDone
       THEN loopPc' = "returned" /\ done' = "canceled"
       ELSE loopPc' = "dial" /\ done' = done
    /\ UNCHANGED <<hubVars, cliVars, link, cfg, stdoutOk, mainVars, runErr, waits, rdPc, sseVars, timerLeft,
                   clock, sent, capVars, out, lastEval>>

\* status 200: backoff = time.Second, readStream starts
SseConnect ==
    /\ cfg.transport = "sse" /\ loopPc = "dial"
    /\ backoff' = 1
    /\ waits' = <<>>
    /\ loopPc' = "read"
    /\ link' = [state |-> "open", hello |-> streamRequest, shaken |-> TRUE]
    /\ UNCHANGED <<hubVars, cliVars, cfg, stdoutOk, mainVars, runErr, waitLeft, rdPc, done, sseVars,
                   timerLeft, clock, sent, capVars, out, lastEval>>

SseEventMatchBeforeLimit(m) ==
    /\ cfg.transport = "sse" /\ loopPc = "read"
    /\ sent < MaxEvents
    /\ sent' = sent + 1
    /\ IF ~Msg(m).valid \/ ~eventAllowed(cfg.Events, Msg(m).Event)
       THEN UNCHANGED <<loopPc, done, capVars, out, lastEval>>
       ELSE IF cfg.mode = "stream"
       THEN /\ out' = Append(out, m)
            /\ lastEval' = [msg |-> m, verdict |-> evaluate(m)]
            /\ IF evaluate(m) # "none"
               THEN done' = evaluate(m) /\ loopPc' = "returned"
               ELSE UNCHANGED <<done, loopPc>>
            /\ UNCHANGED capVars
       ELSE LET c == Captured(m)
            IN  /\ buffer' = c.buffer
                /\ bufferBytes' = c.bytes
                /\ warned' = (warned \/ c.warnNow)
                /\ warnings' = IF c.warnNow THEN warnings + 1 ELSE warnings
                /\ out' = out
                /\ lastEval' = [msg |-> m, verdict |-> evaluate(m)]
                /\ IF evaluate(m) # "none"
                   THEN done' = evaluate(m) /\ loopPc' = "returned"
                   ELSE IF c.fatal
                   THEN done' = "fatal" /\ loopPc' = "returned"
                   ELSE UNCHANGED <<done, loopPc>>
    /\ link' = IF loopPc' = "returned" THEN Closed(link) ELSE link
    /\ UNCHANGED <<hubVars, cliVars, cfg, stdoutOk, mainVars, runErr, backoff, waitLeft, waits, rdPc,
                   sseVars, timerLeft, clock>>

\* readStream completes one SSE event: decodeSmeeData, then handle(payload),
\* the handler of Run (stream) or RunCapture; an error of the handler ends
\* readStream and sse.Client.Run, and goes to done
SseEvent(m) ==
    /\ cfg.transport = "sse" /\ loopPc = "read"
    /\ sent < MaxEvents
    /\ sent' = sent + 1
    /\ IF ~Msg(m).valid \/ ~eventAllowed(cfg.Events, Msg(m).Event)
       THEN UNCHANGED <<loopPc, done, capVars, out, lastEval>>
       ELSE IF cfg.mode = "stream"
       THEN /\ out' = Append(out, m)
            /\ lastEval' = [msg |-> m, verdict |-> evaluate(m)]
            /\ IF evaluate(m) # "none"
               THEN done' = evaluate(m) /\ loopPc' = "returned"
               ELSE UNCHANGED <<done, loopPc>>
            /\ UNCHANGED capVars
       ELSE LET c == Captured(m)
            IN  /\ buffer' = c.buffer
                /\ bufferBytes' = c.bytes
                /\ warned' = (warned \/ c.warnNow)
                /\ warnings' = IF c.warnNow THEN warnings + 1 ELSE warnings
                /\ out' = out
                /\ IF c.fatal
                   THEN done' = "fatal" /\ loopPc' = "returned"
                        /\ lastEval' = lastEval
                   ELSE /\ lastEval' = [msg |-> m, verdict |-> evaluate(m)]
                        /\ IF evaluate(m) # "none"
                           THEN done' = evaluate(m) /\ loopPc' = "returned"
                           ELSE UNCHANGED <<done, loopPc>>
    /\ link' = IF loopPc' = "returned" THEN Closed(link) ELSE link
    /\ UNCHANGED <<hubVars, cliVars, cfg, stdoutOk, mainVars, runErr, backoff, waitLeft, waits, rdPc,
                   sseVars, timerLeft, clock>>

\* ReadString fails (read error or end of stream): streamError, wait, back off
SseStreamErr ==
    /\ cfg.transport = "sse" /\ loopPc = "read"
    /\ Len(waits) < MaxFails
    /\ loopPc' = "wait"
    /\ waitLeft' = backoff
    /\ waits' = Append(waits, backoff)
    /\ link' = Closed(link)
    /\ UNCHANGED <<hubVars, cliVars, cfg, stdoutOk, mainVars, runErr, backoff, rdPc, done, sseVars,
                   timerLeft, clock, sent, capVars, out, lastEval>>

\* readStream sees ctx.Err() != nil: sse.Client.Run returns context.Canceled
SseCanceled ==
    /\ cfg.transport = "sse" /\ loopPc = "read"
    /\ loopCtxDone
    /\ loopPc' = "returned"
    /\ done' = "canceled"
    /\ link' = Closed(link)
    /\ UNCHANGED <<hubVars, cliVars, cfg, stdoutOk, mainVars, runErr, backoff, waitLeft, waits, rdPc,
                   sseVars, timerLeft, clock, sent, capVars, out, lastEval>>

(***************************************************************************)
(* transport "sse": runWithTimeout, and what Run / RunCapture do with the  *)
(* error it returns                                                        *)
(***************************************************************************)
\* RunCapture dumps the buffer for an exitError; Run returns err as it is
SseReturn(err) ==
    /\ rwtPc' = "returned"
    /\ runErr' = IF cfg.mode = "capture" /\ IsExit(err)
                 THEN RunCapture_return(err) ELSE err
    /\ out' \in IF cfg.mode = "capture" /\ IsExit(err) THEN dumped ELSE {out}
    /\ done' = "empty"
    /\ timerLeft' = -1

\* select case <-ctx.Done(): cancel(), then <-done
runWithTimeout_ctx ==
    /\ rwtPc = "select" /\ ctxDone
    /\ runCtxDone' = TRUE
    /\ rwtPc' = "drain"
    /\ rwtRet' = "canceled"
    /\ timerLeft' = -1
    /\ UNCHANGED <<hubVars, cliVars, link, cfg, stdoutOk, mainVars, runErr, loopPc, backoff, waitLeft, waits,
                   rdPc, done, clock, sent, capVars, out, lastEval>>

\* select case <-timeoutCh: cancel(), then <-done
runWithTimeout_timeout ==
    /\ rwtPc = "select" /\ timerLeft = 0
    /\ runCtxDone' = TRUE
    /\ rwtPc' = "drain"
    /\ rwtRet' = "exit124"
    /\ timerLeft' = -1
    /\ UNCHANGED <<hubVars, cliVars, link, cfg, stdoutOk, mainVars, runErr, loopPc, backoff, waitLeft, waits,
                   rdPc, done, clock, sent, capVars, out, lastEval>>

\* select case err := <-done
runWithTimeout_done ==
    /\ rwtPc = "select" /\ done # "empty"
    /\ SseReturn(done)
    /\ UNCHANGED <<hubVars, cliVars, link, cfg, stdoutOk, mainVars, loopPc, backoff, waitLeft, waits, rdPc,
                   rwtRet, runCtxDone, clock, sent, capVars, lastEval>>

\* <-done after cancel(): return ctx.Err() or exitError{124}
runWithTimeout_drain ==
    /\ rwtPc = "drain" /\ done # "empty"
    /\ SseReturn(rwtRet)
    /\ UNCHANGED <<hubVars, cliVars, link, cfg, stdoutOk, mainVars, loopPc, backoff, waitLeft, waits, rdPc,
                   rwtRet, runCtxDone, clock, sent, capVars, lastEval>>

(***************************************************************************)
(* runWithSignals and main                                                 *)
(***************************************************************************)
ExitCodeOfErrorsZero(err) ==
    CASE err = "exit1"    -> 1
      [] err = "exit124"  -> 124
      [] OTHER            -> 0

\* os.Exit of main for the error RunE returned (nil: exit status 0)
ExitCodeOf(err) ==
    CASE err = "exit0"    -> 0
      [] err = "exit1"    -> 1
      [] err = "exit124"  -> 124
      [] err = "canceled" -> 0
      [] OTHER            -> 1

\* select case sig := <-sigCh: cancel()
runWithSignals_sig(s) ==
    /\ mainPc = "select"
    /\ sig' = s
    /\ ctxDone' = TRUE
    /\ mainPc' = "cancelled"
    /\ UNCHANGED <<hubVars, cliVars, link, cfg, stdoutOk, exitCode, runErr, loopPc, backoff, waitLeft, waits,
                   rdPc, done, sseVars, timerLeft, clock, sent, capVars, out,
                   lastEval>>

runWithSignals_waitUsesErr ==
    /\ mainPc = "cancelled"
    /\ runErr # "none"
    /\ exitCode' = ExitCodeOf(runErr)
    /\ mainPc' = "exited"
    /\ UNCHANGED <<hubVars, cliVars, link, cfg, stdoutOk, sig, ctxDone, runErr, loopPc, backoff, waitLeft, waits,
                   rdPc, done, sseVars, timerLeft, clock, sent, capVars, out,
                   lastEval>>

\* _ = <-errCh after cancel(): exit 130 for SIGINT, 143 otherwise
runWithSignals_wait ==
    /\ mainPc = "cancelled"
    /\ runErr # "none"
    /\ exitCode' = IF sig = "INT" THEN 130 ELSE 143
    /\ mainPc' = "exited"
    /\ UNCHANGED <<hubVars, cliVars, link, cfg, stdoutOk, sig, ctxDone, runErr, loopPc, backoff, waitLeft, waits,
                   rdPc, done, sseVars, timerLeft, clock, sent, capVars, out,
                   lastEval>>

\* select case err := <-errCh
runWithSignals_err ==
    /\ mainPc = "select"
    /\ runErr # "none"
    /\ exitCode' = ExitCodeOf(runErr)
    /\ mainPc' = "exited"
    /\ UNCHANGED <<hubVars, cliVars, link, cfg, stdoutOk, sig, ctxDone, runErr, loopPc, backoff, waitLeft, waits,
                   rdPc, done, sseVars, timerLeft, clock, sent, capVars, out,
                   lastEval>>

(***************************************************************************)
(* One second passes.  An armed timer that is due fires before the clock   *)
(* moves on.                                                               *)
(***************************************************************************)
Tick ==
    /\ runErr = "none"
    /\ timerLeft # 0
    /\ ~(loopPc = "wait" /\ waitLeft = 0)
    /\ timerLeft > 0 \/ loopPc = "wait" \/ clock < MaxClock
    /\ timerLeft' = IF timerLeft > 0 THEN timerLeft - 1 ELSE timerLeft
    /\ waitLeft' = IF loopPc = "wait" THEN waitLeft - 1 ELSE waitLeft
    /\ clock' = Min(clock + 1, MaxClock)
    /\ UNCHANGED <<hubVars, cliVars, link, cfg, stdoutOk, mainVars, runErr, loopPc, backoff, waits, rdPc, done,
                   sseVars, sent, capVars, out, lastEval>>

Next ==
    \/ WsDialFail
    \/ WsWaitDone
    \/ \E ok \in BOOLEAN : WsConnect(ok)
    \/ \E m \in MsgNames : WsRecv(m)
    \/ WsReadErr
    \/ WsSelectCtx
    \/ WsSelectDone
    \/ WsSelectTimeout
    \/ SseDialFail
    \/ SseStatusNotOK
    \/ SseWaitDone
    \/ SseConnect
    \/ \E m \in MsgNames : SseEvent(m)
    \/ SseStreamErr
    \/ SseCanceled
    \/ runWithTimeout_ctx
    \/ runWithTimeout_timeout
    \/ runWithTimeout_done
    \/ runWithTimeout_drain
    \/ \E s \in {"INT", "TERM"} : runWithSignals_sig(s)
    \/ runWithSignals_wait
    \/ runWithSignals_err
    \/ Tick

Spec == Init /\ [][Next]_allVars

(***************************************************************************)
(* The capture sessions with the timeout case of readLoopCapture in its    *)
(* two steps: conn.Close(), then <-done.  Between the two the reader       *)
(* goroutine goes on: it handles messages it has already read and ends     *)
(* with the error of ReadMessage or with the result of an assertion.       *)
(***************************************************************************)
CaptureConfigs == {c \in Configs : c.mode = "capture"}

\* readLoopCapture, select case <-timeoutCh: conn.Close(); what follows is
\* the wait on done
readLoopCapture_timeout ==
    /\ cfg.transport = "ws" /\ cfg.mode = "capture"
    /\ loopPc = "read" /\ link.state = "open"
    /\ timerLeft = 0
    /\ timerLeft' = -1
    /\ link' = Closed(link)
    /\ UNCHANGED <<hubVars, cliVars, cfg, stdoutOk, mainVars, runErr, loopPc, backoff,
                   waitLeft, waits, rdPc, done, sseVars, clock, sent, capVars,
                   out, lastEval>>

\* the timeout case returns at once, without <-done
readLoopCapture_waitSkipped ==
    /\ cfg.transport = "ws" /\ cfg.mode = "capture"
    /\ loopPc = "read" /\ link.state = "closed"
    /\ done' = "empty"
    /\ out' \in dumped
    /\ runErr' = RunCapture_return("exit124")
    /\ loopPc' = "returned"
    /\ UNCHANGED <<hubVars, cliVars, link, cfg, stdoutOk, mainVars, backoff, waitLeft,
                   waits, rdPc, sseVars, timerLeft, clock, sent, capVars,
                   lastEval>>

\* <-done after conn.Close(): the reader has sent its result and returned;
\* the result is dropped, readLoopCapture returns exitError{124} and
\* RunCapture dumps the buffer
readLoopCapture_wait ==
    /\ cfg.transport = "ws" /\ cfg.mode = "capture"
    /\ loopPc = "read" /\ link.state = "closed"
    /\ done # "empty"
    /\ done' = "empty"
    /\ out' \in dumped
    /\ runErr' = RunCapture_return("exit124")
    /\ loopPc' = "returned"
    /\ UNCHANGED <<hubVars, cliVars, link, cfg, stdoutOk, mainVars, backoff, waitLeft,
                   waits, rdPc, sseVars, timerLeft, clock, sent, capVars,
                   lastEval>>

\* the select of readLoopCapture is pending while the connection is open
NextReader ==
    \/ WsDialFail
    \/ WsWaitDone
    \/ \E ok \in BOOLEAN : WsConnect(ok)
    \/ \E m \in MsgNames : WsRecv(m)
    \/ WsReadErr
    \/ link.state = "open" /\ WsSelectCtx
    \/ link.state = "open" /\ WsSelectDone
    \/ readLoopCapture_timeout
    \/ readLoopCapture_wait
    \/ SseDialFail
    \/ SseStatusNotOK
    \/ SseWaitDone
    \/ SseConnect
    \/ \E m \in MsgNames : SseEvent(m)
    \/ SseStreamErr
    \/ SseCanceled
    \/ runWithTimeout_ctx
    \/ runWithTimeout_timeout
    \/ runWithTimeout_done
    \/ runWithTimeout_drain
    \/ \E s \in {"INT", "TERM"} : runWithSignals_sig(s)
    \/ runWithSignals_wait
    \/ runWithSignals_err
    \/ Tick

InitReader == InitSession(CaptureConfigs) /\ InitRunning /\ InitHub

SpecReader == InitReader /\ [][NextReader]_allVars

\* the capture sessions with a standard output that works or fails
InitDump ==
    InitSessionOn(CaptureConfigs, BOOLEAN) /\ InitRunning /\ InitHub

SpecDump == InitDump /\ [][Next]_allVars

(***************************************************************************)
(* The hub (internal/server/hub.go) and the handlers of server.Run.        *)
(* The code gives h.broadcast and every c.send a capacity of 16; the model *)
(* runs the same code with the capacities BroadcastCap and SendCap.        *)
(***************************************************************************)
subscribedToNilRejects(filter, event) ==
    \E i \in 1..Len(filter) : filter[i] = event

\* Client.subscribedTo: no filter accepts every category
subscribedTo(filter, event) ==
    Len(filter) = 0 \/ \E i \in 1..Len(filter) : filter[i] = event

\* Client.setEvents: an empty list clears the filter, otherwise a copy
setEvents(list) == IF Len(list) = 0 THEN <<>> ELSE list

\* the subscribers the broadcast loop evicts for message msg: registered,
\* accepting, and with a full queue
Evicted(msg) ==
    {c \in clients : subscribedTo(events[c], msg.event)
                     /\ Len(send[c]) >= SendCap}

\* the subscribers the broadcast loop enqueues msg for
Enqueued(msg) ==
    {c \in clients : subscribedTo(events[c], msg.event)
                     /\ Len(send[c]) < SendCap}

\* the webhook handler (after verification): a non-blocking send on
\* h.broadcast; a full queue drops the delivery
Webhook(cat) ==
    /\ nextId < MaxDeliveries
    /\ nextId' = nextId + 1
    /\ broadcast' = IF Len(broadcast) < BroadcastCap
                    THEN Append(broadcast, [event |-> cat, id |-> nextId + 1])
                    ELSE broadcast
    /\ UNCHANGED <<clients, send, sendOpen, closes, events, cstate, wstate,
                   conn, inbox, submitted>>
    /\ UNCHANGED <<subscribed, webVars>>
    /\ UNCHANGED vars

\* the ws handler: Upgrade succeeded, the Client is built and the handler
\* blocks on hub.register <- client; connections are named in the order in
\* which the handler accepts them
WsAccept(c) ==
    /\ cstate[c] = "absent"
    /\ \A i \in 1..Len(AcceptOrder) :
          AcceptOrder[i] = c =>
              \A j \in 1..(i - 1) : cstate[AcceptOrder[j]] # "absent"
    /\ cstate' = [cstate EXCEPT ![c] = "registering"]
    /\ conn' = [conn EXCEPT ![c] = "open"]
    /\ UNCHANGED <<clients, broadcast, send, sendOpen, closes, events, wstate,
                   inbox, submitted, nextId>>
    /\ UNCHANGED <<subscribed, webVars>>
    /\ UNCHANGED vars

\* Hub.run, case client := <-h.register; the handler then starts writePump
\* and enters readPump
Hub_register(c) ==
    /\ cstate[c] = "registering"
    /\ clients' = clients \cup {c}
    /\ cstate' = [cstate EXCEPT ![c] = "reading"]
    /\ wstate' = [wstate EXCEPT ![c] = "running"]
    /\ UNCHANGED <<broadcast, send, sendOpen, closes, events, conn, inbox,
                   submitted, nextId>>
    /\ UNCHANGED <<subscribed, webVars>>
    /\ UNCHANGED vars

Hub_unregisterUnchecked(c) ==
    /\ cstate[c] = "unregistering"
    /\ clients' = clients \ {c}
    /\ sendOpen' = [sendOpen EXCEPT ![c] = FALSE]
    /\ closes' = [closes EXCEPT ![c] = @ + 1]
    /\ cstate' = [cstate EXCEPT ![c] = "gone"]
    /\ conn' = [conn EXCEPT ![c] = "closed"]
    /\ UNCHANGED <<broadcast, send, events, wstate, inbox, submitted, nextId>>
    /\ UNCHANGED <<subscribed, webVars>>
    /\ UNCHANGED vars

\* Hub.run, case client := <-h.unregister; readPump's deferred function then
\* closes the connection
Hub_unregister(c) ==
    /\ cstate[c] = "unregistering"
    /\ IF c \in clients
       THEN /\ clients' = clients \ {c}
            /\ sendOpen' = [sendOpen EXCEPT ![c] = FALSE]
            /\ closes' = [closes EXCEPT ![c] = @ + 1]
       ELSE UNCHANGED <<clients, sendOpen, closes>>
    /\ cstate' = [cstate EXCEPT ![c] = "gone"]
    /\ conn' = [conn EXCEPT ![c] = "closed"]
    /\ UNCHANGED <<broadcast, send, events, wstate, inbox, submitted, nextId>>
    /\ UNCHANGED <<subscribed, webVars>>
    /\ UNCHANGED vars

Hub_broadcastBlocking ==
    /\ broadcast # <<>>
    /\ Evicted(Head(broadcast)) = {}
    /\ LET msg == Head(broadcast)
       IN  /\ send' = [c \in Clients |->
                        IF c \in Enqueued(msg) THEN Append(send[c], msg)
                        ELSE send[c]]
           /\ broadcast' = Tail(broadcast)
    /\ UNCHANGED <<clients, sendOpen, closes, events, cstate, wstate, conn,
                   inbox, submitted, nextId>>
    /\ UNCHANGED <<subscribed, webVars>>
    /\ UNCHANGED vars

Hub_broadcastEvictsUnfiltered ==
    /\ broadcast # <<>>
    /\ LET msg == Head(broadcast)
           full == {c \in clients : Len(send[c]) >= SendCap}
       IN  /\ send' = [c \in Clients |->
                        IF c \in Enqueued(msg) THEN Append(send[c], msg)
                        ELSE send[c]]
           /\ clients' = clients \ full
           /\ sendOpen' = [c \in Clients |-> sendOpen[c] /\ c \notin full]
           /\ closes' = [c \in Clients |->
                          IF c \in full THEN closes[c] + 1 ELSE closes[c]]
           /\ broadcast' = Tail(broadcast)
    /\ UNCHANGED <<events, cstate, wstate, conn, inbox, submitted,
                   nextId>>
    /\ UNCHANGED <<subscribed, webVars>>
    /\ UNCHANGED vars

Hub_broadcastPrepends ==
    /\ broadcast # <<>>
    /\ LET msg == Head(broadcast)
       IN  /\ send' = [c \in Clients |->
                        IF c \in Enqueued(msg) THEN <<msg>> \o send[c]
                        ELSE send[c]]
           /\ clients' = clients \ Evicted(msg)
           /\ sendOpen' = [c \in Clients |->
                            sendOpen[c] /\ c \notin Evicted(msg)]
           /\ closes' = [c \in Clients |->
                          IF c \in Evicted(msg) THEN closes[c] + 1
                          ELSE closes[c]]
           /\ broadcast' = Tail(broadcast)
    /\ UNCHANGED <<events, cstate, wstate, conn, inbox, submitted,
                   nextId>>
    /\ UNCHANGED <<subscribed, webVars>>
    /\ UNCHANGED vars

\* Hub.run, case message := <-h.broadcast: every registered subscriber whose
\* filter accepts the category gets a non-blocking send; one whose queue is
\* full is deleted from h.clients and its queue is closed
Hub_broadcast ==
    /\ broadcast # <<>>
    /\ LET msg == Head(broadcast)
       IN  /\ send' = [c \in Clients |->
                        IF c \in Enqueued(msg) THEN Append(send[c], msg)
                        ELSE send[c]]
           /\ clients' = clients \ Evicted(msg)
           /\ sendOpen' = [c \in Clients |->
                            sendOpen[c] /\ c \notin Evicted(msg)]
           /\ closes' = [c \in Clients |->
                          IF c \in Evicted(msg) THEN closes[c] + 1
                          ELSE closes[c]]
           /\ broadcast' = Tail(broadcast)
    /\ UNCHANGED <<events, cstate, wstate, conn, inbox, submitted,
                   nextId>>
    /\ UNCHANGED <<subscribed, webVars>>
    /\ UNCHANGED vars

\* the subscriber sends {"type":"subscribe","events":filter}, once per
\* connection (sendSubscribe, called by Run after the dial)
Subscribe(c, filter) ==
    /\ conn[c] = "open"
    /\ ~subscribed[c]
    /\ subscribed' = [subscribed EXCEPT ![c] = TRUE]
    /\ inbox' = [inbox EXCEPT ![c] = Append(@, filter)]
    /\ submitted' = [submitted EXCEPT ![c] = filter]
    /\ UNCHANGED <<clients, broadcast, send, sendOpen, closes, events, cstate,
                   wstate, conn, nextId>>
    /\ UNCHANGED webVars
    /\ UNCHANGED vars

readPump_subscribeMerges(c) ==
    /\ cstate[c] = "reading"
    /\ conn[c] = "open"
    /\ inbox[c] # <<>>
    /\ events' = [events EXCEPT ![c] = @ \o setEvents(Head(inbox[c]))]
    /\ inbox' = [inbox EXCEPT ![c] = Tail(@)]
    /\ UNCHANGED <<clients, broadcast, send, sendOpen, closes, cstate, wstate,
                   conn, submitted, nextId>>
    /\ UNCHANGED <<subscribed, webVars>>
    /\ UNCHANGED vars

\* readPump reads a subscribe message: c.setEvents(msg.Events)
readPump_subscribe(c) ==
    /\ cstate[c] = "reading"
    /\ conn[c] = "open"
    /\ inbox[c] # <<>>
    /\ events' = [events EXCEPT ![c] = setEvents(Head(inbox[c]))]
    /\ inbox' = [inbox EXCEPT ![c] = Tail(@)]
    /\ UNCHANGED <<clients, broadcast, send, sendOpen, closes, cstate, wstate,
                   conn, submitted, nextId>>
    /\ UNCHANGED <<subscribed, webVars>>
    /\ UNCHANGED vars

\* the peer goes away or the network fails
ConnLost(c) ==
    /\ conn[c] = "open"
    /\ conn' = [conn EXCEPT ![c] = "closed"]
    /\ UNCHANGED <<clients, broadcast, send, sendOpen, closes, events, cstate,
                   wstate, inbox, submitted, nextId>>
    /\ UNCHANGED <<subscribed, webVars>>
    /\ UNCHANGED vars

\* readPump: ReadMessage fails; the deferred function blocks on
\* c.hub.unregister <- c
readPump_error(c) ==
    /\ cstate[c] = "reading"
    /\ conn[c] = "closed"
    /\ cstate' = [cstate EXCEPT ![c] = "unregistering"]
    /\ UNCHANGED <<clients, broadcast, send, sendOpen, closes, events, wstate,
                   conn, inbox, submitted, nextId>>
    /\ UNCHANGED <<subscribed, webVars>>
    /\ UNCHANGED vars

\* writePump takes the next message of c.send and writes it; a failed write
\* ends writePump, which closes the connection
writePump_write(c) ==
    /\ wstate[c] = "running"
    /\ send[c] # <<>>
    /\ send' = [send EXCEPT ![c] = Tail(@)]
    /\ IF conn[c] = "open"
       THEN UNCHANGED <<wstate, conn>>
       ELSE /\ wstate' = [wstate EXCEPT ![c] = "stopped"]
            /\ UNCHANGED conn
    /\ UNCHANGED <<clients, broadcast, sendOpen, closes, events, cstate,
                   inbox, submitted, nextId>>
    /\ UNCHANGED <<subscribed, webVars>>
    /\ UNCHANGED vars

writePump_closedLeavesConn(c) ==
    /\ wstate[c] = "running"
    /\ send[c] = <<>>
    /\ ~sendOpen[c]
    /\ wstate' = [wstate EXCEPT ![c] = "stopped"]
    /\ UNCHANGED <<clients, broadcast, send, sendOpen, closes, events, cstate,
                   conn, inbox, submitted, nextId>>
    /\ UNCHANGED <<subscribed, webVars>>
    /\ UNCHANGED vars

\* writePump finds c.send closed and drained: it returns and closes the
\* connection
writePump_closed(c) ==
    /\ wstate[c] = "running"
    /\ send[c] = <<>>
    /\ ~sendOpen[c]
    /\ wstate' = [wstate EXCEPT ![c] = "stopped"]
    /\ conn' = [conn EXCEPT ![c] = "closed"]
    /\ UNCHANGED <<clients, broadcast, send, sendOpen, closes, events, cstate,
                   inbox, submitted, nextId>>
    /\ UNCHANGED <<subscribed, webVars>>
    /\ UNCHANGED vars

NextHub ==
    \/ \E cat \in Categories : Webhook(cat)
    \/ \E c \in Clients : WsAccept(c)
    \/ \E c \in Clients : Hub_register(c)
    \/ \E c \in Clients : Hub_unregister(c)
    \/ Hub_broadcast
    \/ \E c \in Clients, f \in Filters : Subscribe(c, f)
    \/ \E c \in Clients : readPump_subscribe(c)
    \/ \E c \in Clients : ConnLost(c)
    \/ \E c \in Clients : readPump_error(c)
    \/ \E c \in Clients : writePump_write(c)
    \/ \E c \in Clients : writePump_closed(c)

\* the server runs on its own; the client session variables stay as they are
HubConfigs == {c \in Configs : c.transport = "ws" /\ c.mode = "stream"
                               /\ c.Timeout = 0 /\ c.SuccessAssertions = <<>>}

InitHubSpec == InitSession(HubConfigs) /\ InitRunning /\ InitHub

SpecHub == InitHubSpec /\ [][NextHub]_allVars

(***************************************************************************)
(* One subscriber that is any WebSocket peer: it may send a subscribe      *)
(* message whenever it likes, and readPump applies each one it reads.      *)
(***************************************************************************)
\* a further {"type":"subscribe","events":filter} on the open connection
Resubscribe(c, filter) ==
    /\ conn[c] = "open"
    /\ subscribed[c]
    /\ Len(inbox[c]) < MaxPending
    /\ inbox' = [inbox EXCEPT ![c] = Append(@, filter)]
    /\ submitted' = [submitted EXCEPT ![c] = filter]
    /\ UNCHANGED <<clients, broadcast, send, sendOpen, closes, events, cstate,
                   wstate, conn, nextId>>
    /\ UNCHANGED <<subscribed, webVars>>
    /\ UNCHANGED vars

\* the first connection the handler accepts
Peer == AcceptOrder[1]

NextResubscribe ==
    \/ \E cat \in Categories : Webhook(cat)
    \/ WsAccept(Peer)
    \/ Hub_register(Peer)
    \/ Hub_unregister(Peer)
    \/ Hub_broadcast
    \/ \E f \in Filters : Subscribe(Peer, f)
    \/ \E f \in Filters : Resubscribe(Peer, f)
    \/ readPump_subscribe(Peer)
    \/ ConnLost(Peer)
    \/ readPump_error(Peer)
    \/ writePump_write(Peer)
    \/ writePump_closed(Peer)

SpecResubscribe == InitHubSpec /\ [][NextResubscribe]_allVars

(***************************************************************************)
(* One subscriber from its connection to the end of both its goroutines.   *)
(* Hub.run never blocks (its sends on c.send are non-blocking), so a       *)
(* pending send on h.unregister is received; readPump and writePump are    *)
(* goroutines of their own, so a step of theirs that stays possible is     *)
(* taken.                                                                  *)
(***************************************************************************)
NextShutdown ==
    \/ \E cat \in Categories : Webhook(cat)
    \/ WsAccept(Peer)
    \/ Hub_register(Peer)
    \/ Hub_unregister(Peer)
    \/ Hub_broadcast
    \/ \E f \in Filters : Subscribe(Peer, f)
    \/ readPump_subscribe(Peer)
    \/ ConnLost(Peer)
    \/ readPump_error(Peer)
    \/ writePump_write(Peer)
    \/ writePump_closed(Peer)

SpecShutdown ==
    /\ InitHubSpec
    /\ [][NextShutdown]_allVars
    /\ WF_allVars(Hub_unregister(Peer))
    /\ WF_allVars(readPump_error(Peer))
    /\ WF_allVars(writePump_write(Peer))
    /\ WF_allVars(writePump_closed(Peer))


(***************************************************************************)
(* The webhook handler with its signature check (server.Run, /webhook, and *)
(* internal/server/signature.go).  A byte string is a sequence of numbers  *)
(* below 256.                                                              *)
(***************************************************************************)
HexDigits == <<"0", "1", "2", "3", "4", "5", "6", "7", "8", "9",
               "a", "b", "c", "d", "e", "f">>
UpperHexDigits == <<"0", "1", "2", "3", "4", "5", "6", "7", "8", "9",
                    "A", "B", "C", "D", "E", "F">>

\* hex.EncodeToString
RECURSIVE EncodeToString(_)
EncodeToString(bytes) ==
    IF bytes = <<>> THEN <<>>
    ELSE <<HexDigits[(bytes[1] \div 16) + 1], HexDigits[(bytes[1] % 16) + 1]>>
         \o EncodeToString(Tail(bytes))

\* encoding/hex fromHexChar: the digit's value, -1 for any other character
fromHexChar(c) ==
    IF \E i \in 1..16 : HexDigits[i] = c
    THEN (CHOOSE i \in 1..16 : HexDigits[i] = c) - 1
    ELSE IF \E i \in 1..16 : UpperHexDigits[i] = c
    THEN (CHOOSE i \in 1..16 : UpperHexDigits[i] = c) - 1
    ELSE -1

RECURSIVE DecodePairs(_)
DecodePairs(s) ==
    IF s = <<>> THEN <<>>
    ELSE <<fromHexChar(s[1]) * 16 + fromHexChar(s[2])>>
         \o DecodePairs(SubSeq(s, 3, Len(s)))

\* hex.DecodeString: an odd length or a character that is no hex digit is
\* an error
DecodeString(s) ==
    IF Len(s) % 2 # 0 \/ \E i \in 1..Len(s) : fromHexChar(s[i]) = -1
    THEN [ok |-> FALSE, bytes |-> <<>>]
    ELSE [ok |-> TRUE, bytes |-> DecodePairs(s)]

\* the secrets of GH_PULSE_WEBHOOK_SECRET: unset, blank, and two keys
Secrets == {<<>>, <<" ">>, <<"k">>, <<"j">>}

\* the request bodies: two JSON documents and one text that is not JSON
Bodies == {"b1", "b2", "bad"}

IsJSON(body) == body # "bad"

\* hmac.New(sha256.New, secret) over body.  The 32 bytes of the code are
\* stood for by one byte that differs for every pair of key and body.
Mac(secret, body) ==
    LET key  == IF secret = <<"k">> THEN 1
                ELSE IF secret = <<"j">> THEN 2
                ELSE IF secret = <<" ">> THEN 3 ELSE 4
        text == CASE body = "b1" -> 11 [] body = "b2" -> 12 [] OTHER -> 13
    IN  <<key * 16 + text>>

P_sha256 == <<"s", "h", "a", "2", "5", "6", "=">>
P_sha1   == <<"s", "h", "a", "1", "=">>

\* what GitHub sends for a body under a secret
Sign(secret, body) == P_sha256 \o EncodeToString(Mac(secret, body))

\* the X-Hub-Signature-256 headers of the model: absent; the signature of
\* each body under each key; one in upper-case digits; one without its
\* prefix, one with another prefix; digits that are no hex, an odd number
\* of digits, and no digits
Headers ==
    {<<>>}
    \cup {Sign(k, b) : k \in {<<"k">>, <<"j">>}, b \in Bodies}
    \cup {P_sha256 \o <<"1", "B">>,
          EncodeToString(Mac(<<"k">>, "b1")),
          P_sha1 \o EncodeToString(Mac(<<"k">>, "b1")),
          P_sha256 \o <<"z", "z">>,
          P_sha256 \o <<"1">>,
          P_sha256}

verifyWebhookSignatureNoPrefixCheck(body, headerSignature, secret) ==
    IF TrimSpace(secret) = <<>> THEN TRUE
    ELSE IF headerSignature = <<>> THEN FALSE
    ELSE LET hexSig == IF HasPrefix(headerSignature, P_sha256)
                       THEN SubSeq(headerSignature, Len(P_sha256) + 1,
                                   Len(headerSignature))
                       ELSE headerSignature
             provided == DecodeString(hexSig)
         IN  provided.ok => Mac(secret, body) = provided.bytes

\* verifyWebhookSignature: the ok result
verifyWebhookSignature(body, headerSignature, secret) ==
    IF TrimSpace(secret) = <<>> THEN TRUE
    ELSE IF headerSignature = <<>> THEN FALSE
    ELSE IF ~HasPrefix(headerSignature, P_sha256) THEN FALSE
    ELSE LET hexSig == SubSeq(headerSignature, Len(P_sha256) + 1,
                              Len(headerSignature))
             provided == DecodeString(hexSig)
         IN  IF ~provided.ok THEN FALSE
             ELSE Mac(secret, body) = provided.bytes

\* a line of the handler's logger, with the delivery it is about
LogLine(kind, id) == [kind |-> kind, delivery |-> id]

\* the handler with a plain send on h.broadcast in place of the select with
\* a default case: the request waits while the queue is full
WebhookRequestBlockingSend(cat, body, header, secret) ==
    /\ nextId < MaxDeliveries
    /\ nextId' = nextId + 1
    /\ request' = [event |-> cat, body |-> body, header |-> header,
                   secret |-> secret]
    /\ IF ~verifyWebhookSignature(body, header, secret)
       THEN /\ responses' = Append(responses, 401)
            /\ logged' = Append(logged, LogLine("unauthorized", nextId + 1))
            /\ UNCHANGED broadcast
       ELSE IF ~IsJSON(body)
       THEN /\ responses' = Append(responses, 500)
            /\ UNCHANGED <<broadcast, logged>>
       ELSE /\ Len(broadcast) < BroadcastCap
            /\ responses' = Append(responses, 200)
            /\ broadcast' = Append(broadcast,
                                   [event |-> cat, id |-> nextId + 1])
            /\ logged' = Append(logged, LogLine("received", nextId + 1))
    /\ UNCHANGED <<clients, send, sendOpen, closes, events, cstate, wstate,
                   conn, inbox, submitted, subscribed>>
    /\ UNCHANGED vars

\* the /webhook handler for a POST whose body was read: 401 unless the
\* signature check passes; 500 if the envelope cannot be marshalled (a
\* payload that is not JSON); otherwise a non-blocking send on h.broadcast
\* (a full queue drops the delivery and logs the drop), the "webhook
\* received" line and 200
WebhookRequest(cat, body, header, secret) ==
    /\ nextId < MaxDeliveries
    /\ nextId' = nextId + 1
    /\ request' = [event |-> cat, body |-> body, header |-> header,
                   secret |-> secret]
    /\ IF ~verifyWebhookSignature(body, header, secret)
       THEN /\ responses' = Append(responses, 401)
            /\ logged' = Append(logged, LogLine("unauthorized", nextId + 1))
            /\ UNCHANGED broadcast
       ELSE IF ~IsJSON(body)
       THEN /\ responses' = Append(responses, 500)
            /\ UNCHANGED <<broadcast, logged>>
       ELSE /\ responses' = Append(responses, 200)
            /\ IF Len(broadcast) < BroadcastCap
               THEN /\ broadcast' = Append(broadcast,
                                          [event |-> cat, id |-> nextId + 1])
                    /\ logged' = Append(logged,
                                        LogLine("received", nextId + 1))
               ELSE /\ broadcast' = broadcast
                    /\ logged' = Append(logged, LogLine("dropped", nextId + 1))
                                  \o <<LogLine("received", nextId + 1)>>
    /\ UNCHANGED <<clients, send, sendOpen, closes, events, cstate, wstate,
                   conn, inbox, submitted, subscribed>>
    /\ UNCHANGED vars

\* the deliveries and one subscriber that takes every category
NextWebhook ==
    \/ /\ nextId < MaxRequests
       /\ \E cat \in Categories, body \in Bodies, header \in Headers,
             secret \in Secrets : WebhookRequest(cat, body, header, secret)
    \/ WsAccept(Peer)
    \/ Hub_register(Peer)
    \/ Hub_broadcast
    \/ writePump_write(Peer)

SpecWebhook == InitHubSpec /\ [][NextWebhook]_allVars

\* the server under a burst of deliveries: requests without a signature,
\* accepted when no secret is configured and refused under the secret "k",
\* and two subscribers that take every category
NextBurst ==
    \/ \E cat \in Categories, secret \in {<<>>, <<"k">>} :
          WebhookRequest(cat, "b1", <<>>, secret)
    \/ \E c \in Clients : WsAccept(c)
    \/ \E c \in Clients : Hub_register(c)
    \/ Hub_broadcast
    \/ \E c \in Clients : writePump_write(c)

SpecBurst == InitHubSpec /\ [][NextBurst]_allVars

(***************************************************************************)
(* The command line: RunE of the stream and capture commands checks the    *)
(* flags, parses the --success-on and --failure-on texts and only then     *)
(* starts the session (cmd/gh-pulse/main.go).                              *)
(***************************************************************************)
\* the characters of the command-line texts the model tries
InputChars == {"a", ".", "=", "~", " ", "("}

\* every text of at most MaxInput characters, and some "path exists" texts
Inputs ==
    UNION {[1..n -> InputChars] : n \in 0..MaxInput}
    \cup {<<"a", " ">> \o W_exists,
          <<"a", ".", "a", " ", " ">> \o W_exists \o <<" ">>,
          W_exists,
          <<"a", " ">> \o W_exists \o <<" ", "a">>,
          <<"a", " ", "e", "x", "i", "s", "t">>}

\* the values of --timeout (an int flag): negative, absent and positive
TimeoutFlags == {-1} \cup Timeouts

\* a text that parses: "a=a"
T_rule == <<"a", "=", "a">>

\* the flag values of one invocation: the text under test alone, after a
\* text that parses, or under --failure-on; and the invocations with no rule
Invocations ==
    {[cmd |-> c, successOn |-> <<input>>, failureOn |-> <<>>,
      timeoutSeconds |-> 0] : c \in {"stream", "capture"}, input \in Inputs}
    \cup
    {[cmd |-> c, successOn |-> <<T_rule, input>>, failureOn |-> <<>>,
      timeoutSeconds |-> 0] : c \in {"stream", "capture"}, input \in Inputs}
    \cup
    {[cmd |-> c, successOn |-> <<T_rule>>, failureOn |-> <<input>>,
      timeoutSeconds |-> 0] : c \in {"stream", "capture"}, input \in Inputs}
    \cup
    {[cmd |-> c, successOn |-> <<>>, failureOn |-> f,
      timeoutSeconds |-> t] :
        c \in {"stream", "capture"}, f \in {<<>>, <<T_rule>>},
        t \in TimeoutFlags}

\* RunE up to runWithSignals: captureCmd first wants an exit condition; then
\* the success texts and the failure texts are parsed, and the first error
\* is returned
RunE_result(a) ==
    LET success == ParseAssertions(a.successOn, 0)
        failure == ParseAssertions(a.failureOn, 1)
    IN  IF /\ a.cmd = "capture"
           /\ Len(a.successOn) = 0 /\ Len(a.failureOn) = 0
           /\ a.timeoutSeconds = 0
        THEN ParseFailed("capture mode requires at least one exit condition")
        ELSE IF success.err # "" THEN ParseFailed(success.err)
        ELSE IF failure.err # "" THEN ParseFailed(failure.err)
        ELSE [err |-> "", success |-> success.list, failure |-> failure.list]

RunE_parse ==
    /\ cliPc = "parse"
    /\ parsed' = RunE_result(argv)
    /\ cliPc' = IF parsed'.err # "" THEN "failed" ELSE "parsed"
    /\ UNCHANGED <<hubVars, matchVars, link, stdoutOk, argv, cfg, mainVars, runErr, loopPc, backoff,
                   waitLeft, waits, rdPc, done, sseVars, timerLeft, clock,
                   sent, capVars, out, lastEval>>

\* RunE returned the error: main exits with status 1
RunE_fail ==
    /\ cliPc = "failed"
    /\ mainPc = "select"
    /\ mainPc' = "exited"
    /\ exitCode' = 1
    /\ UNCHANGED <<hubVars, cliVars, link, cfg, stdoutOk, sig, ctxDone, runErr, loopPc,
                   backoff, waitLeft, waits, rdPc, done, sseVars, timerLeft,
                   clock, sent, capVars, out, lastEval>>

\* RunE calls runWithSignals, which starts client.Run or client.RunCapture
\* with the parsed assertions and the timeout: the session begins
RunE_run ==
    /\ cliPc = "parsed"
    /\ cliPc' = "running"
    /\ cfg' = [cfg EXCEPT !.mode = argv.cmd,
                          !.SuccessAssertions = parsed.success,
                          !.FailureAssertions = parsed.failure,
                          !.Timeout = argv.timeoutSeconds]
    /\ UNCHANGED <<hubVars, matchVars, link, stdoutOk, argv, parsed, mainVars, runErr, loopPc, backoff,
                   waitLeft, waits, rdPc, done, sseVars, timerLeft, clock,
                   sent, capVars, out, lastEval>>

\* the first connection attempt of the running session
Run_dial ==
    /\ cliPc = "running"
    /\ Len(waits) = 0 /\ sent = 0
    /\ \/ \E ok \in BOOLEAN : WsConnect(ok)
       \/ WsDialFail

NextCli ==
    \/ RunE_parse
    \/ RunE_fail
    \/ RunE_run
    \/ Run_dial

InitCli ==
    /\ InitSession(HubConfigs) /\ InitHub
    /\ InitNoProbe
    /\ argv \in Invocations
    /\ parsed = NotParsed
    /\ cliPc = "parse"

SpecCli == InitCli /\ [][NextCli]_allVars

(***************************************************************************)
(* The evaluation of one assertion on one decoded message                  *)
(* (client.matchesAssertions with client.valueAtPath and stringifyJSON).   *)
(***************************************************************************)
K_a == <<"a">>
K_b == <<"b">>
K_c == <<"c">>
K_none == <<>>
S_x == <<"x">>

\* {"a":{"b":{"c":"x"}}}
D_nested == JObj([k \in {K_a} |->
                JObj([j \in {K_b} |-> JObj([i \in {K_c} |-> JStr(S_x)])])])

\* {"a":{"b":["x",{"c":1}]}}
D_deep == JObj([k \in {K_a} |->
              JObj([j \in {K_b} |->
                  JArr(<<JStr(S_x), JObj([i \in {K_c} |-> JNum(1)])>>)])])

\* {"a":["x",[1]],"b":"x"}
D_flat == JObj([k \in {K_a, K_b} |->
              IF k = K_a THEN JArr(<<JStr(S_x), JArr(<<JNum(1)>>)>>)
              ELSE JStr(S_x)])

\* ["x",{"a":1}]
D_list == JArr(<<JStr(S_x), JObj([k \in {K_a} |-> JNum(1)])>>)

\* {"":{"":"x"},"a":{"":1}}
D_blank == JObj([k \in {K_none, K_a} |->
               IF k = K_none THEN JObj([j \in {K_none} |-> JStr(S_x)])
               ELSE JObj([j \in {K_none} |-> JNum(1)])])

Payloads == {D_nested, D_deep, D_flat, D_list, D_blank, JStr(S_x)}

PathChars == {"a", "b", ".", "0", "1", "-"}

\* every path of at most MaxPath characters, and some longer ones
Paths ==
    UNION {[1..n -> PathChars] : n \in 0..MaxPath}
    \cup {<<"a", ".", "b", ".", "c">>,
          <<"a", ".", "b", ".", "x">>,
          <<"a", ".", "x", ".", "c">>,
          <<"a", ".", "b", ".", "0">>,
          <<"a", ".", "b", ".", "1", ".", "c">>,
          <<"a", ".", "b", ".", "2">>,
          <<"a", ".", "b", ".", "-", "1">>,
          <<"a", ".", "b", ".", "c", ".", "0">>,
          <<"a", ".", "+", "1">>,
          <<"a", ".", "0", "1">>}

\* the texts an eq assertion compares with: a string, a number, and the
\* JSON texts of an object and of arrays
EqValues == {S_x, <<"1">>,
             Marshal(JObj([i \in {K_c} |-> JStr(S_x)])),
             Marshal(JArr(<<JStr(S_x), JArr(<<JNum(1)>>)>>)),
             Marshal(JArr(<<JNum(1)>>))}

RegexValues == {S_x, K_c}

Rules ==
    {[Path |-> p, Operator |-> "exists", Value |-> <<>>, ExitCode |-> 0] :
        p \in Paths}
    \cup {[Path |-> p, Operator |-> "eq", Value |-> v, ExitCode |-> 0] :
            p \in Paths, v \in EqValues}
    \cup {[Path |-> p, Operator |-> "regex", Value |-> v, ExitCode |-> 0] :
            p \in Paths, v \in RegexValues}

\* matchesAssertions(message, []Assertion{rule}) for a message that decodes
Evaluate ==
    /\ ~result.done
    /\ result' = [done    |-> TRUE,
                  found   |-> valueAtPath(probe.payload, probe.rule.Path),
                  matched |-> matchesAssertions(
                                  [valid |-> TRUE, js |-> probe.payload],
                                  <<probe.rule>>)]
    /\ UNCHANGED <<hubVars, probe, link, stdoutOk, argv, parsed, cliPc, cfg, mainVars, runErr,
                   loopPc, backoff, waitLeft, waits, rdPc, done, sseVars,
                   timerLeft, clock, sent, capVars, out, lastEval>>

NextMatch == Evaluate

InitMatch ==
    /\ InitSession(HubConfigs) /\ InitHub
    /\ argv = <<>> /\ parsed = NotParsed /\ cliPc = "running"
    /\ probe \in [payload : Payloads, rule : Rules]
    /\ result = NoResult

SpecMatch == InitMatch /\ [][NextMatch]_allVars

(***************************************************************************)
(* Properties of the client session                                        *)
(***************************************************************************)
matchesSuccess(m) == matchesAssertions(Msg(m), cfg.SuccessAssertions)
matchesFailure(m) == matchesAssertions(Msg(m), cfg.FailureAssertions)

\* C1: for every event whose assertions are evaluated the success list goes
\* first: a success match makes the verdict exit 0 even when a failure rule
\* matches the same event, a failure match without a success match makes it
\* exit 1, and otherwise the handler goes on reading; a session that ends
\* through the handler's verdict (no timeout, no signal) exits with that code,
\* and a session never ends with an assertion exit without such a verdict.
C1_SuccessBeforeFailure ==
    lastEval.msg # "" =>
        /\ matchesSuccess(lastEval.msg) => lastEval.verdict = "exit0"
        /\ (~matchesSuccess(lastEval.msg) /\ matchesFailure(lastEval.msg))
              => lastEval.verdict = "exit1"
        /\ (~matchesSuccess(lastEval.msg) /\ ~matchesFailure(lastEval.msg))
              => /\ lastEval.verdict = "none"
                 /\ done \notin {"exit0", "exit1"}
                 /\ runErr \notin {"exit0", "exit1"}
        /\ (lastEval.verdict = "exit0" /\ mainPc = "exited" /\ sig = "none"
                /\ runErr # "exit124") => exitCode = 0
        /\ (lastEval.verdict = "exit1" /\ mainPc = "exited" /\ sig = "none"
                /\ runErr # "exit124") => exitCode = 1

\* an event that matches a success rule and a failure rule ended a stream
\* session with exit code 0
C1_Witness ==
    /\ cfg.mode = "stream"
    /\ lastEval.msg # ""
    /\ matchesSuccess(lastEval.msg) /\ matchesFailure(lastEval.msg)
    /\ mainPc = "exited" /\ exitCode = 0

timeoutTaken == runErr = "exit124" \/ rwtRet = "exit124"

\* C2: with a positive timeout T, no matching event (and no signal and no
\* buffer overflow), the session has taken its timeout exit once more than T
\* seconds have passed since the session started, whatever happened to the
\* connection in the meantime.
C2_TimeoutSinceStart ==
    (/\ cfg.Timeout > 0
     /\ clock > cfg.Timeout
     /\ sig = "none"
     /\ lastEval.verdict = "none"
     /\ done # "fatal" /\ runErr # "fatal")
        => timeoutTaken

\* the same statement for the sse client alone, whose timer is armed once by
\* runWithTimeout around the whole connection loop
C2_TimeoutSinceStart_sse == cfg.transport = "sse" => C2_TimeoutSinceStart

\* C3: when RunCapture returns an exit outcome (0, 1 or 124), the output
\* holds exactly the buffered events, in arrival order, each once; the
\* process exit codes 0 and 124 are only reached after that flush.
C3_CaptureFlush ==
    cfg.mode = "capture" =>
        /\ IsExit(runErr) => out = buffer
        /\ (mainPc = "exited" /\ exitCode \in {0, 124}) => out = buffer

\* three events captured, then the timeout: all three flushed, exit 124
C3_Witness ==
    /\ cfg.mode = "capture"
    /\ Len(buffer) >= 3
    /\ out = buffer
    /\ mainPc = "exited" /\ exitCode = 124

\* C4: when the capture session ends with the fatal buffer error, every
\* event captured so far has been written to the output.
C4_FatalFlushes ==
    (cfg.mode = "capture" /\ runErr = "fatal") => out = buffer

\* C5: a capture process that exits with 130 or 143 has written the events
\* it captured.
C5_CancelFlushes ==
    (cfg.mode = "capture" /\ mainPc = "exited" /\ exitCode \in {130, 143})
        => out = buffer

Pow2(n) == 2 ^ n

\* C10: the waits made since the last successful connection are
\* 1, 2, 4, 8, 16, 30, 30, ...; the delay is always within 1..30, the next
\* delay continues that sequence, and it is 1 on an established connection.
C10_Backoff ==
    /\ \A i \in 1..Len(waits) : waits[i] = Min(Pow2(i - 1), 30)
    /\ backoff >= 1 /\ backoff <= 30
    /\ loopPc = "dial" => backoff = Min(Pow2(Len(waits)), 30)
    /\ loopPc = "wait" => backoff = waits[Len(waits)] /\ waitLeft <= backoff
    /\ loopPc = "read" => backoff = 1

\* seven failed attempts in a row waited 1, 2, 4, 8, 16, 30 and 30 seconds
C10_Witness == waits = <<1, 2, 4, 8, 16, 30, 30>>

(***************************************************************************)
(* Properties of the hub (checked under SpecHub)                           *)
(***************************************************************************)
\* the filter is empty or lists the category
filterAccepts(filter, cat) ==
    filter = <<>> \/ \E i \in 1..Len(filter) : filter[i] = cat

Last(q) == q[Len(q)]

\* the step in which the hub takes the head of h.broadcast and fans it out
BroadcastStep == broadcast # <<>> /\ broadcast' = Tail(broadcast)

\* C6: when the hub processes an event of category X, every registered
\* subscriber whose filter is empty or contains X has the event appended to
\* its outbound queue, unless its queue is full and it stops being a live
\* subscriber in that step.
C6_AcceptingSubscribersGetEvent ==
    [][BroadcastStep =>
         \A c \in clients :
            filterAccepts(events[c], Head(broadcast).event) =>
               \/ send'[c] = Append(send[c], Head(broadcast))
               \/ Len(send[c]) = SendCap /\ c \notin clients']_allVars

\* of two events, the subscriber without a filter holds both and the
\* subscriber whose filter lists only the second one's category holds that one
C6_Witness ==
    \E c1, c2 \in clients :
        /\ c1 # c2
        /\ events[c1] = <<>> /\ events[c2] # <<>>
        /\ Len(send[c1]) = 2 /\ Len(send[c2]) = 1
        /\ ~filterAccepts(events[c2], send[c1][1].event)
        /\ send[c1][2] = send[c2][1]

\* the step in which writePump writes the head of c.send to an open connection
Written(c) ==
    /\ wstate[c] = "running" /\ wstate'[c] = "running"
    /\ conn[c] = "open"
    /\ send[c] # <<>> /\ send'[c] = Tail(send[c])

\* C7: a message that writePump delivers to a subscriber is of a category
\* that the last filter the subscriber submitted accepts.
C7_NoDeliveryAfterFilter ==
    [][\A c \in Clients :
          Written(c) => filterAccepts(submitted[c], Head(send[c]).event)]_allVars

\* C8: the hub is never blocked (a pending event, registration or removal
\* can always be taken, whatever the state of the outbound queues), and in a
\* broadcast step a subscriber with a full queue is removed and its queue
\* closed while every other accepting subscriber gets the event.
C8_FullSubscriberRemovedWithoutBlocking ==
    [][/\ broadcast # <<>> => ENABLED Hub_broadcast
       /\ \A c \in Clients :
             /\ cstate[c] = "registering" => ENABLED Hub_register(c)
             /\ cstate[c] = "unregistering" => ENABLED Hub_unregister(c)
       /\ BroadcastStep =>
            \A c \in clients :
               filterAccepts(events[c], Head(broadcast).event) =>
                  IF Len(send[c]) >= SendCap
                  THEN c \notin clients' /\ ~sendOpen'[c]
                  ELSE /\ c \in clients' /\ sendOpen'[c]
                       /\ send'[c] = Append(send[c], Head(broadcast))]_allVars

\* a subscriber was evicted with a full queue while another subscriber got
\* the event that did not fit
C8_Witness ==
    \E c1, c2 \in Clients :
        /\ c1 \notin clients /\ cstate[c1] = "reading" /\ ~sendOpen[c1]
        /\ Len(send[c1]) = SendCap
        /\ c2 \in clients /\ send[c2] # <<>>
        /\ Last(send[c2]).id > Last(send[c1]).id

\* C9: an outbound queue never holds more than its capacity; an accepted
\* event that finds the queue full removes the subscriber from the active
\* set and closes its queue; a rejected event leaves the subscriber, its
\* queue and its registration as they are.
C9_QueueBoundAndEviction ==
    [][/\ \A c \in Clients : Len(send[c]) <= SendCap /\ Len(send'[c]) <= SendCap
       /\ BroadcastStep =>
            \A c \in clients :
               IF filterAccepts(events[c], Head(broadcast).event)
               THEN Len(send[c]) = SendCap =>
                       /\ c \notin clients' /\ ~sendOpen'[c]
                       /\ closes'[c] = closes[c] + 1
               ELSE /\ c \in clients' /\ sendOpen'[c]
                    /\ send'[c] = send[c]
                    /\ closes'[c] = closes[c]]_allVars

\* a registered subscriber with a full queue stayed registered while a later
\* event of a category its filter rejects was fanned out to another one
C9_Witness ==
    \E c1, c2 \in Clients :
        /\ c2 \in clients /\ sendOpen[c2]
        /\ Len(send[c2]) = SendCap
        /\ events[c2] # <<>>
        /\ send[c1] # <<>>
        /\ Last(send[c1]).id > Last(send[c2]).id
        /\ ~filterAccepts(events[c2], Last(send[c1]).event)

(***************************************************************************)
(* Properties of the connection loop                                       *)
(***************************************************************************)
\* the connection loop starts a connection attempt in this step
AttemptStarts == loopPc # "dial" /\ loopPc' = "dial"

\* C11: every connection attempt after the first follows a wait that ran
\* its full delay: the loop never goes from a lost or failed connection
\* straight to the next dial.
C11_WaitBeforeReconnect ==
    [][AttemptStarts => (loopPc = "wait" /\ waitLeft = 0)]_allVars

\* Run / RunCapture (ws) or the connection loop of sse.Client.Run returns in
\* this step
LoopReturns == loopPc # "returned" /\ loopPc' = "returned"

\* what the loop hands back when it returns: the error of Run / RunCapture
\* (ws), the value sent on done (sse)
LoopResult == IF cfg.transport = "sse" THEN done' ELSE runErr'

\* the reasons for which the session may end
ReturnJustified(err) ==
    CASE err = "canceled" -> loopCtxDone
      [] err = "exit0"    -> lastEval'.verdict = "exit0"
      [] err = "exit1"    -> lastEval'.verdict = "exit1"
      [] err = "exit124"  -> cfg.Timeout > 0
      [] err = "fatal"    -> bufferBytes' >= maxBufferBytes
      [] OTHER            -> FALSE

\* C12: the connection loop returns only for a cancellation, an assertion
\* match, a timeout or the fatal buffer error; the outcome of a dial (failure,
\* failed handshake, non-200 response) and a read error on an established
\* connection leave it running, and a wait that ends without cancellation is
\* followed by the next connection attempt.
C12_RecoverableErrorsRetried ==
    [][/\ LoopReturns => ReturnJustified(LoopResult)
       /\ (runErr = "none" /\ runErr' # "none") => ReturnJustified(runErr')
       /\ (loopPc = "dial" /\ loopPc' # "dial") => loopPc' \in {"wait", "read"}
       /\ (loopPc = "read" /\ done = "readErr" /\ loopPc' # "read"
               /\ ~loopCtxDone /\ timerLeft # 0)
             => loopPc' = "dial"
       /\ (loopPc = "wait" /\ loopPc' # "wait" /\ ~loopCtxDone)
             => loopPc' = "dial"]_allVars

\* after an event, a broken stream and two failed attempts the loop is
\* about to dial once more
C12_Witness ==
    /\ runErr = "none" /\ ~ctxDone
    /\ sent >= 1
    /\ Len(waits) >= 2
    /\ loopPc = "dial"

(***************************************************************************)
(* Scheduling: a goroutine that can take a step takes one.  The dial, the  *)
(* wait and the selects of the connection loop, of runWithTimeout and of   *)
(* runWithSignals all end; messages, read errors, signals and the passing  *)
(* of time are up to the environment and get no fairness.                  *)
(***************************************************************************)
LoopProgress ==
    \/ WsDialFail
    \/ \E ok \in BOOLEAN : WsConnect(ok)
    \/ WsWaitDone
    \/ WsSelectCtx
    \/ WsSelectDone
    \/ WsSelectTimeout
    \/ SseDialFail
    \/ SseStatusNotOK
    \/ SseConnect
    \/ SseWaitDone
    \/ SseCanceled

TimeoutProgress ==
    \/ runWithTimeout_ctx
    \/ runWithTimeout_timeout
    \/ runWithTimeout_done
    \/ runWithTimeout_drain

MainProgress ==
    \/ runWithSignals_wait
    \/ runWithSignals_err

\* the session steps with at most MaxFairEvents messages received; every
\* action that gets fairness leaves the count of received messages alone
NextFair == Next /\ sent' <= MaxFairEvents

SpecFair ==
    /\ Init /\ [][NextFair]_allVars
    /\ WF_allVars(LoopProgress)
    /\ WF_allVars(TimeoutProgress)
    /\ WF_allVars(MainProgress)

\* nothing but the cancellation is pending for the select that ends the run
OnlyCancelPending ==
    /\ done \notin {"exit0", "exit1", "fatal"}
    /\ timerLeft # 0
    /\ rwtRet # "exit124"

\* C13: once cancellation is requested Run returns, whatever the loop was
\* doing (dialing, waiting, reading); it returns the cancellation error
\* unless another outcome was already pending; a wait that ends under
\* cancellation ends the loop, a read that ends under cancellation ends the
\* loop or passes through such a wait, and no connection attempt starts
\* once the loop's context is cancelled.
C13_CancellationReturns ==
    /\ [][/\ AttemptStarts => ~loopCtxDone
          /\ (loopCtxDone /\ loopPc = "wait" /\ loopPc' # "wait")
                => loopPc' = "returned"
          /\ (loopCtxDone /\ loopPc = "read" /\ loopPc' # "read")
                => loopPc' \in {"returned", "wait"}
          /\ (ctxDone /\ OnlyCancelPending /\ runErr = "none"
                /\ runErr' # "none")
                => runErr' = "canceled"]_allVars
    /\ (ctxDone ~> runErr # "none")

\* cancelled during a backoff wait that had not run out: Run returned the
\* cancellation error
C13_Witness ==
    /\ ctxDone
    /\ runErr = "canceled"
    /\ waits # <<>> /\ waitLeft = 0 /\ backoff > 1
    /\ clock = 0

(***************************************************************************)
(* Properties of the process exit                                          *)
(***************************************************************************)
SignalCode == IF sig = "INT" THEN 130 ELSE 143

\* C14: a signal taken by runWithSignals cancels the session in the same
\* step; the process then exits only after Run has returned, and with 130
\* for SIGINT and 143 for SIGTERM whatever Run returned.
C14_SignalPreempts ==
    /\ sig # "none" => ctxDone
    /\ (sig # "none" /\ mainPc = "exited")
          => (runErr # "none" /\ exitCode = SignalCode)
    /\ (sig # "none" /\ mainPc # "exited") => exitCode = -1

\* SIGTERM arrived, the session still matched a success rule and Run
\* returned exit 0: the process exits with 143
C14_Witness ==
    /\ sig = "TERM"
    /\ runErr = "exit0"
    /\ mainPc = "exited" /\ exitCode = 143

\* C15: a process that exited with code 0 took no signal, and the last event
\* its handler evaluated matched a success assertion and made Run return the
\* exit-0 outcome.
C15_ExitZeroOnlyOnSuccess ==
    (mainPc = "exited" /\ exitCode = 0)
        => /\ sig = "none"
           /\ runErr = "exit0"
           /\ lastEval.msg # ""
           /\ matchesSuccess(lastEval.msg)

\* a capture session exited 0 on an event that matches the success rule only
C15_Witness ==
    /\ cfg.mode = "capture"
    /\ mainPc = "exited" /\ exitCode = 0
    /\ lastEval.msg = "succ"

(***************************************************************************)
(* Properties of the stream output and of the capture buffer               *)
(***************************************************************************)
\* the session takes one upstream message in this step
Receives == sent' = sent + 1

\* this step writes message m as the next output line and evaluates it
WritesAndEvaluates(m) ==
    /\ out' = Append(out, m)
    /\ lastEval' = [msg |-> m, verdict |-> evaluate(m)]

\* C16: in stream mode a step that takes an event appends exactly that event
\* to the output and evaluates it (the sse client drops, unwritten and
\* unevaluated, an event it cannot decode or that --event excludes); the
\* output changes in no other step and never after an event has triggered an
\* exit, so the lines are the events in arrival order, each once, and the
\* triggering event is the last line.
C16_StreamWritesBeforeExit ==
    [][cfg.mode = "stream" =>
         /\ Receives =>
               \/ \E m \in MsgNames : WritesAndEvaluates(m)
               \/ /\ cfg.transport = "sse"
                  /\ out' = out /\ lastEval' = lastEval
         /\ out' # out => (Receives /\ lastEval.verdict = "none")
         /\ lastEval'.msg # "" => /\ out' # <<>>
                                  /\ out'[Len(out')] = lastEval'.msg
         /\ (mainPc' = "exited" /\ runErr' \in {"exit0", "exit1"})
               => lastEval'.verdict = runErr']_allVars

\* two events were written, the second one triggered the failure exit
C16_Witness ==
    /\ cfg.mode = "stream"
    /\ Len(out) = 2 /\ out[1] # out[2]
    /\ lastEval = [msg |-> out[2], verdict |-> "exit1"]
    /\ mainPc = "exited" /\ exitCode = 1

\* C17: in a capture session the warning has been logged exactly once when
\* the byte total is at or above the warn threshold and not at all while it
\* is below; it is logged in the step that takes the total from below the
\* threshold to it or above, across reconnections.
C17_WarnOnce ==
    [][cfg.mode = "capture" =>
         /\ warnings = (IF bufferBytes >= warnBufferBytes THEN 1 ELSE 0)
         /\ warned = (warnings = 1)
         /\ warnings' # warnings =>
               /\ Receives
               /\ bufferBytes < warnBufferBytes
               /\ bufferBytes' >= warnBufferBytes
               /\ warnings' = 1]_allVars

\* the second of three captured events crossed the threshold; one warning
C17_Witness ==
    /\ cfg.mode = "capture"
    /\ Len(buffer) = 3
    /\ Msg(buffer[1]).len < warnBufferBytes
    /\ Msg(buffer[2]).len >= warnBufferBytes
    /\ bufferBytes < maxBufferBytes
    /\ warnings = 1

\* the session ended although nothing was cancelled and no event it took
\* matches an assertion
EndedUnprovoked ==
    /\ runErr # "none"
    /\ ~ctxDone
    /\ lastEval.verdict = "none"
    /\ \A i \in 1..Len(buffer) : evaluate(buffer[i]) = "none"
    /\ \A i \in 1..Len(out) : evaluate(out[i]) = "none"

FilterApplied(c) == inbox[c] # <<>> /\ inbox'[c] = Tail(inbox[c])

\* C19: when readPump applies a subscribe message the subscriber's filter
\* becomes exactly the list of that message, whatever the filter was; from
\* then on the hub enqueues for the subscriber the events of the listed
\* categories and no others, and every event if the list is empty.
C19_SubscribeReplacesFilter ==
    [][\A c \in Clients :
          /\ FilterApplied(c) => events'[c] = Head(inbox[c])
          /\ events'[c] # events[c] => FilterApplied(c)
          /\ (BroadcastStep /\ c \in clients /\ Len(send[c]) < SendCap)
                => send'[c] =
                     IF \/ events[c] = <<>>
                        \/ \E i \in 1..Len(events[c]) :
                              events[c][i] = Head(broadcast).event
                     THEN Append(send[c], Head(broadcast))
                     ELSE send[c]]_allVars

\* the filter was replaced by [pull_request] (a further message is already
\* pending); the queue holds a push event from before and a later
\* pull_request event
C19_Witness ==
    /\ events[Peer] = <<"pull_request">>
    /\ inbox[Peer] = << <<>> >>
    /\ Len(send[Peer]) = 2
    /\ send[Peer][1].event = "push" /\ send[Peer][2].event = "pull_request"

\* C20: an assertion path=~pattern whose pattern is not a valid regular
\* expression is rejected when it is parsed: once the command line has been
\* parsed without an error, and so whenever the session may connect, every
\* regex assertion holds a pattern that compiles
C20_InvalidRegexRejected ==
    cliPc \in {"parsed", "running"} =>
        \A list \in {parsed.success, parsed.failure} :
            \A i \in 1..Len(list) :
                list[i].Operator = "regex" => regexpCompileOK(list[i].Value)

(***************************************************************************)
(* Properties of the command line                                          *)
(***************************************************************************)
AllBlank(s) == \A i \in 1..Len(s) : s[i] = " "

HasEq(s) == \E i \in 1..Len(s) : s[i] = "="

\* the text before and after the first "="
BeforeEq(s) == SubSeq(s, 1, IndexRune(s, "="))
AfterEq(s) == SubSeq(s, IndexRune(s, "=") + 2, Len(s))

NonBlank(s) == SelectSeq(s, LAMBDA c : c # " ")

\* blanks, one word, blanks, the word exists, blanks
IsExistsForm(s) ==
    \E k \in 1..Len(s), e \in 1..Len(s) :
        /\ k < e
        /\ AllBlank(SubSeq(s, 1, k - 1))
        /\ s[k] # " "
        /\ \E j \in k..(e - 2) :
              /\ \A i \in k..j : s[i] # " "
              /\ AllBlank(SubSeq(s, j + 1, e - 1))
        /\ e + 5 <= Len(s)
        /\ SubSeq(s, e, e + 5) = W_exists
        /\ AllBlank(SubSeq(s, e + 6, Len(s)))

EmptyInput(s)     == AllBlank(s)
MissingPath(s)    == HasEq(s) /\ AllBlank(BeforeEq(s))
MissingValue(s)   == HasEq(s) /\ AllBlank(AfterEq(s))
MissingPattern(s) == HasEq(s) /\ NonBlank(AfterEq(s)) = <<"~">>
UnknownForm(s)    == ~HasEq(s) /\ ~AllBlank(s) /\ ~IsExistsForm(s)

Malformed(s) ==
    \/ EmptyInput(s)
    \/ MissingPath(s)
    \/ MissingValue(s)
    \/ MissingPattern(s)
    \/ UnknownForm(s)

HasMalformed(list) == \E i \in 1..Len(list) : Malformed(list[i])

\* C21: when a --success-on or --failure-on text is empty, lacks its path,
\* its value or its pattern, or has none of the three forms, ParseAssertions
\* returns an error and no list for the flag that holds it; RunE then fails:
\* the session is never started, nothing is dialled, received or written,
\* and the exit that follows has status 1.
C21_ParseErrorStopsBeforeConnect ==
    /\ \A list \in {argv.successOn, argv.failureOn} :
          HasMalformed(list) =>
              \A code \in {0, 1} :
                  /\ ParseAssertions(list, code).err # ""
                  /\ ParseAssertions(list, code).list = <<>>
    /\ (cliPc # "parse"
            /\ (HasMalformed(argv.successOn) \/ HasMalformed(argv.failureOn)))
          => /\ cliPc = "failed"
             /\ parsed.err # ""
             /\ parsed.success = <<>> /\ parsed.failure = <<>>
             /\ loopPc = "dial" /\ rdPc = "idle" /\ waits = <<>>
             /\ sent = 0 /\ out = <<>> /\ buffer = <<>>
             /\ IF mainPc = "exited" THEN exitCode = 1 ELSE ENABLED RunE_fail

\* a --failure-on text without its pattern, after a --success-on text that
\* parses, ended the process with status 1
C21_Witness ==
    /\ argv.successOn = <<T_rule>>
    /\ Len(argv.failureOn) = 1 /\ MissingPattern(argv.failureOn[1])
    /\ ~MissingPath(argv.failureOn[1])
    /\ cliPc = "failed" /\ mainPc = "exited" /\ exitCode = 1

NoExitCondition(a) ==
    /\ Len(a.successOn) = 0 /\ Len(a.failureOn) = 0
    /\ a.timeoutSeconds <= 0

\* C27: a capture command with no --success-on, no --failure-on and no
\* positive --timeout fails in RunE before anything is dialled, and a capture
\* session that is running has an assertion or a positive timeout.
C27_CaptureNeedsExitCondition ==
    /\ (argv.cmd = "capture" /\ NoExitCondition(argv) /\ cliPc # "parse")
          => /\ cliPc = "failed"
             /\ loopPc = "dial" /\ rdPc = "idle" /\ waits = <<>>
    /\ (cliPc = "running" /\ cfg.mode = "capture")
          => \/ Len(cfg.SuccessAssertions) > 0
             \/ Len(cfg.FailureAssertions) > 0
             \/ cfg.Timeout > 0

(***************************************************************************)
(* Properties of the webhook handler                                       *)
(***************************************************************************)
SecretConfigured(secret) == \E i \in 1..Len(secret) : secret[i] # " "

LowerDigit(c) ==
    IF \E i \in 1..16 : UpperHexDigits[i] = c
    THEN HexDigits[CHOOSE i \in 1..16 : UpperHexDigits[i] = c]
    ELSE c

\* the header is sha256= followed by the hex digits of the body's code under
\* the secret, in either case
SignatureMatches(header, secret, body) ==
    LET want == EncodeToString(Mac(secret, body))
    IN  /\ Len(header) = Len(P_sha256) + Len(want)
        /\ SubSeq(header, 1, Len(P_sha256)) = P_sha256
        /\ \A i \in 1..Len(want) :
              LowerDigit(header[Len(P_sha256) + i]) = want[i]

Approved(r) ==
    SecretConfigured(r.secret) => SignatureMatches(r.header, r.secret, r.body)

QueuedIds ==
    {broadcast[i].id : i \in 1..Len(broadcast)}
    \cup UNION {{send[c][i].id : i \in 1..Len(send[c])} : c \in Clients}

\* C22: the handler answers 401 exactly to the deliveries that verification
\* does not approve (a secret is configured and the signature header is
\* missing, malformed or does not match the body); such a delivery changes
\* no queue, and every delivery on the hub's inbound queue or on a
\* subscriber's queue was answered 200; without a secret no delivery is
\* answered 401.
C22_OnlyApprovedDeliveriesQueued ==
    /\ [](/\ nextId > 0 =>
               /\ Len(responses) = nextId
               /\ (responses[nextId] = 401) <=> ~Approved(request)
          /\ \A id \in QueuedIds : responses[id] = 200)
    /\ [][(nextId' # nextId /\ responses'[nextId'] = 401)
              => (broadcast' = broadcast /\ send' = send)]_allVars

\* the second delivery, signed with another key than the configured one, was
\* answered 401 and the first, approved, is the only one in the subscriber's
\* queue
C22_Witness ==
    /\ nextId = 2
    /\ responses = <<200, 401>>
    /\ request.secret = <<"k">>
    /\ request.header = Sign(<<"j">>, request.body)
    /\ broadcast = <<>>
    /\ Len(send[Peer]) = 1 /\ send[Peer][1].id = 1

\* the session takes an upstream message that is not valid JSON (ws) or
\* that does not decode to an event (sse)
InvalidReceived == WsRecv("bad") \/ SseEvent("bad")

\* the message matched nothing, the connection is still being read and the
\* session has no outcome: the next message is taken as any other
SkippedAndStillReading ==
    /\ evaluate("bad") = "none"
    /\ lastEval'.verdict = "none" \/ lastEval' = lastEval
    /\ loopPc' = "read" /\ rdPc' = rdPc /\ done' = done
    /\ runErr' = runErr /\ mainPc' = mainPc
    /\ waits' = waits

\* C23 as stated: an invalid message matches no assertion, leaves the
\* connection open and the session running.
C23_InvalidMessageSkipped ==
    [][InvalidReceived => SkippedAndStillReading]_allVars

\* C23, amended: the same, unless the session is a WebSocket capture and the
\* invalid message, which is buffered and counted like any other, brings
\* the buffer to the hard limit; the reader then reports the fatal error.
C23_InvalidMessageSkippedUnlessBufferFull ==
    [][InvalidReceived =>
          IF cfg.transport = "ws" /\ cfg.mode = "capture"
             /\ Captured("bad").fatal
          THEN done' = "fatal" /\ lastEval' = lastEval
          ELSE SkippedAndStillReading]_allVars

\* a stream session took an invalid message and then, on the same
\* connection, the message that matched the success rule
C23_Witness ==
    /\ cfg.transport = "ws" /\ cfg.mode = "stream"
    /\ out = <<"bad", "succ">>
    /\ waits = <<>>
    /\ lastEval = [msg |-> "succ", verdict |-> "exit0"]
    /\ mainPc = "exited" /\ exitCode = 0

(***************************************************************************)
(* Properties of the assertion evaluation                                  *)
(***************************************************************************)
IsNonScalar(v) == v.t \in {"obj", "arr"}

\* C24: when the path of an eq or regex assertion resolves to an object or
\* an array, the assertion does not match.
C24_NonScalarNeverCompared ==
    (/\ result.done
     /\ probe.rule.Operator \in {"eq", "regex"}
     /\ result.found.ok /\ IsNonScalar(result.found.val))
        => ~result.matched

\* the path is empty or has an empty segment: a leading dot, a trailing dot
\* or two dots in a row
HasEmptySegment(path) ==
    \/ path = <<>>
    \/ path[1] = "."
    \/ path[Len(path)] = "."
    \/ \E i \in 1..(Len(path) - 1) : path[i] = "." /\ path[i + 1] = "."

\* C25: a path that is empty or has an empty segment is not found in any
\* JSON value, and no assertion with such a path matches.
C25_EmptySegmentNotFound ==
    (result.done /\ HasEmptySegment(probe.rule.Path))
        => (~result.found.ok /\ ~result.matched)

\* the same for the messages none of whose objects has the empty key
C25_EmptySegmentNotFound_NoBlankKey ==
    probe.payload # D_blank => C25_EmptySegmentNotFound

\* the position of the last dot of a path, 0 if it has none
LastDot(path) ==
    IF \E i \in 1..Len(path) : path[i] = "."
    THEN CHOOSE i \in 1..Len(path) :
            path[i] = "." /\ \A j \in (i + 1)..Len(path) : path[j] # "."
    ELSE 0

LastSegment(path) == SubSeq(path, LastDot(path) + 1, Len(path))

\* what the segments before the last one resolve to
Parent(payload, path) ==
    IF LastDot(path) = 0 THEN [ok |-> TRUE, val |-> payload]
    ELSE valueAtPath(payload, SubSeq(path, 1, LastDot(path) - 1))

Zeros(n) == [i \in 1..n |-> "0"]

\* the segment is a decimal numeral of the number n: an optional sign, any
\* leading zeros, the digits of n
Denotes(seg, n) ==
    \E sign \in {<<>>, <<"+">>} \cup (IF n = 0 THEN {<<"-">>} ELSE {}),
       z \in 0..Len(seg) :
        seg = sign \o Zeros(z) \o Itoa(n)

\* C26: the value a path resolves to follows from what the segments before
\* its last one resolve to: nothing if they resolve to nothing or to a
\* scalar; below an array, the element at the zero-based index the last
\* segment denotes, and nothing if it denotes no index in range (negative,
\* too large, not a number); below an object, the member of that key if
\* there is one and nothing otherwise.  So a.b.c of {"a":{"b":{"c":"x"}}}
\* is "x" and a.b.x and a.x.c are not found.
C26_PathResolution ==
    result.done =>
        LET path   == probe.rule.Path
            parent == Parent(probe.payload, path)
            seg    == LastSegment(path)
            found  == result.found
        IN  /\ ~parent.ok => ~found.ok
            /\ (parent.ok /\ parent.val.t = "arr") =>
                  /\ \A n \in 0..(Len(parent.val.v) - 1) :
                        Denotes(seg, n) =>
                            found = [ok |-> TRUE, val |-> parent.val.v[n + 1]]
                  /\ (~\E n \in 0..(Len(parent.val.v) - 1) : Denotes(seg, n))
                        => ~found.ok
            /\ (parent.ok /\ parent.val.t = "obj") =>
                  IF seg \in DOMAIN parent.val.v
                  THEN found = [ok |-> TRUE, val |-> parent.val.v[seg]]
                  ELSE ~found.ok
            /\ (parent.ok /\ parent.val.t \notin {"arr", "obj"}) => ~found.ok
            /\ probe.payload = D_nested =>
                  /\ path = <<"a", ".", "b", ".", "c">>
                        => found = [ok |-> TRUE, val |-> JStr(S_x)]
                  /\ path \in {<<"a", ".", "b", ".", "x">>,
                               <<"a", ".", "x", ".", "c">>} => ~found.ok

\* a.b.1.c of {"a":{"b":["x",{"c":1}]}} resolved to 1 and the assertion
\* a.b.1.c=1 matched
C26_Witness ==
    /\ result.done
    /\ probe.payload = D_deep
    /\ probe.rule.Path = <<"a", ".", "b", ".", "1", ".", "c">>
    /\ probe.rule.Operator = "eq" /\ probe.rule.Value = <<"1">>
    /\ result.found = [ok |-> TRUE, val |-> JNum(1)]
    /\ result.matched

(***************************************************************************)
(* C28: after either goroutine of a subscriber stops, both stop and the    *)
(* subscriber leaves h.clients.  When readPump ends, Hub.run unregisters   *)
(* the subscriber and closes c.send, and writePump ends.  When Hub.run     *)
(* closes c.send on eviction, writePump ends (with every write succeeding, *)
(* only once c.send is drained), the connection is closed, readPump ends   *)
(* and its send on h.unregister is received.                               *)
(***************************************************************************)
ReaderEnded == cstate[Peer] \in {"unregistering", "gone"}

WriterEnded == wstate[Peer] = "stopped"

QueueClosed == ~sendOpen[Peer]

BothStopped ==
    /\ cstate[Peer] = "gone"
    /\ wstate[Peer] = "stopped"
    /\ conn[Peer] = "closed"
    /\ Peer \notin clients
    /\ ~sendOpen[Peer]

\* writePump ends with the connection still open only on a drained queue
EndsDrained ==
    (wstate[Peer] = "running" /\ wstate'[Peer] = "stopped"
        /\ conn[Peer] = "open")
    => (send[Peer] = <<>> /\ ~sendOpen[Peer] /\ conn'[Peer] = "closed")

\* readPump asks for unregistration only after its connection was closed
ReaderEndsOnClosedConn ==
    (cstate[Peer] = "reading" /\ cstate'[Peer] = "unregistering")
    => conn[Peer] = "closed"

Handshake ==
    IF cfg.transport = "ws" THEN subscribeMessage(cfg.Events)
    ELSE streamRequest

\* the connection is open and its handshake is complete
Shaken ==
    /\ link.state = "open"
    /\ link.shaken
    /\ link.hello = Handshake

\* the handshake of the current connection failed
Rejected == link.state = "closed" /\ ~link.shaken

\* a message is read only from a connection whose handshake is complete
ReadsAfterHandshake == sent' # sent => Shaken

\* a failed handshake closes the connection and starts the wait
RejectedWaits ==
    (~Rejected /\ Rejected')
    => (loopPc = "dial" /\ loopPc' = "wait" /\ waitLeft' = backoff'
        /\ sent' = sent)

\* after a failed handshake nothing is read and the loop leaves the wait
\* only to dial again, or to return when the context is cancelled
RejectedReconnects ==
    Rejected
    => /\ sent' = sent
       /\ loopPc = "wait" /\ loopPc' # "wait"
            => \/ loopPc' = "dial" /\ ~loopCtxDone
               \/ loopPc' = "returned" /\ loopCtxDone

C29_HandshakeBeforeRead ==
    /\ [](loopPc = "read" => Shaken)
    /\ [][ReadsAfterHandshake /\ RejectedWaits /\ RejectedReconnects]_allVars

\* messages were read, and on a later connection the handshake failed: the
\* connection is closed, the wait is over and the loop dials again
C29_Witness ==
    /\ Rejected
    /\ loopPc = "dial"
    /\ waits # <<>>
    /\ sent >= 1
    /\ runErr = "none"

(***************************************************************************)
(* C30: in every state of a capture session bufferBytes is the sum of the  *)
(* lengths of the buffered events, and every step leaves the buffer as it  *)
(* is or appends one event at its end, whatever happens to the connection. *)
(***************************************************************************)
RECURSIVE TotalLen(_)
TotalLen(buf) ==
    IF buf = <<>> THEN 0 ELSE Msg(Head(buf)).len + TotalLen(Tail(buf))

\* buffer' is buffer, or buffer with one more event at the end
GrowsByAppending ==
    /\ Len(buffer') \in {Len(buffer), Len(buffer) + 1}
    /\ SubSeq(buffer', 1, Len(buffer)) = buffer

C30_BufferAccounting ==
    /\ [](cfg.mode = "capture" => bufferBytes = TotalLen(buffer))
    /\ [][cfg.mode = "capture" => GrowsByAppending]_allVars

\* two events are buffered and the connection they came over is closed: the
\* loop is about to dial again
C30_Witness ==
    /\ cfg.mode = "capture"
    /\ Len(buffer) >= 2
    /\ bufferBytes > 0
    /\ loopPc = "dial"
    /\ link.state = "closed" /\ link.shaken
    /\ runErr = "none"

(***************************************************************************)
(* C31: with a non-empty --event list the SSE clients ignore every event   *)
(* whose category is not listed: it is not written, not buffered, not      *)
(* counted in bufferBytes and not evaluated; with no --event the events of *)
(* every category are processed.                                           *)
(***************************************************************************)
\* the category is one of cfg.Events
Listed(cat) == \E i \in 1..Len(cfg.Events) : cfg.Events[i] = cat

\* the step leaves the output, the buffer, the total and the outcome alone
Ignored ==
    /\ out' = out
    /\ buffer' = buffer /\ bufferBytes' = bufferBytes
    /\ warned' = warned /\ warnings' = warnings
    /\ lastEval' = lastEval
    /\ done' = done /\ loopPc' = loopPc

\* the step writes the event (stream) or buffers and counts it (capture)
Processed(m) ==
    IF cfg.mode = "stream"
    THEN out' = Append(out, m)
    ELSE /\ buffer' = Append(buffer, m)
         /\ bufferBytes' = bufferBytes + Msg(m).len

C31_UnlistedEventsIgnored ==
    [][\A m \in MsgNames :
          SseEvent(m) =>
             /\ (cfg.Events # <<>> /\ ~Listed(Msg(m).Event)) => Ignored
             /\ (Msg(m).valid /\ (cfg.Events = <<>> \/ Listed(Msg(m).Event)))
                   => Processed(m)]_allVars

\* with --event push and a success rule, two events arrived and the session
\* goes on: one was ignored (unlisted or undecodable), the push event that
\* matches no rule is the only line of the output
C31_Witness ==
    /\ cfg.transport = "sse" /\ cfg.mode = "stream"
    /\ cfg.Events = <<"push">>
    /\ cfg.SuccessAssertions # <<>>
    /\ sent = 2
    /\ out = <<"idle">>
    /\ runErr = "none" /\ done = "empty"

(***************************************************************************)
(* C32: a subscriber receives the events it accepts in the order in which  *)
(* the hub processed them, each at most once.  The hub takes one input per *)
(* step; an event it processes goes to the end of the outbound queue of    *)
(* every accepting subscriber, once; writePump takes the head.  Events are *)
(* numbered in the order in which they enter h.broadcast, which is the     *)
(* order in which Hub.run takes them.                                      *)
(***************************************************************************)
\* the ids of a queue go up strictly
Increasing(q) == \A i, j \in 1..Len(q) : i < j => q[i].id < q[j].id

\* everything still to be processed is newer than everything queued for a
\* subscriber, so what writePump takes next is newer than all it took before
C32_Order ==
    /\ Increasing(broadcast)
    /\ \A c \in Clients :
          /\ Increasing(send[c])
          /\ \A i \in 1..Len(send[c]), j \in 1..Len(broadcast) :
                send[c][i].id < broadcast[j].id

\* the queue of c loses its head, gains one event at its end, or stays
FifoStep(c) ==
    \/ send'[c] = send[c]
    \/ send[c] # <<>> /\ send'[c] = Tail(send[c])
    \/ /\ BroadcastStep
       /\ c \in clients
       /\ filterAccepts(events[c], Head(broadcast).event)
       /\ send'[c] = Append(send[c], Head(broadcast))

\* Hub.run handles one input in a step: an event, or one registration, or
\* one removal
OneInput ==
    /\ BroadcastStep => \A c \in Clients : cstate'[c] = cstate[c]
    /\ Cardinality({c \in Clients : cstate'[c] # cstate[c]}) <= 1

C32_OrderedDelivery ==
    /\ []C32_Order
    /\ [][OneInput /\ \A c \in Clients : FifoStep(c)]_allVars

\* a subscriber that takes every category has the second and the third event
\* queued, in that order; the first one is no longer in its queue
C32_Witness ==
    \E c \in clients :
        /\ events[c] = <<>>
        /\ cstate[c] = "reading" /\ conn[c] = "open"
        /\ Len(send[c]) = 2
        /\ send[c][1].id = 2 /\ send[c][2].id = 3
        /\ broadcast = <<>>
        /\ closes[c] = 0

(***************************************************************************)
(* C33: under every interleaving of eviction, unregistration and           *)
(* broadcasts, a subscriber that was registered is in h.clients exactly    *)
(* when its c.send is open; no c.send is closed twice, nothing is sent on  *)
(* a closed c.send, and the unregister request of a subscriber that was    *)
(* evicted changes nothing in the hub.                                     *)
(***************************************************************************)
\* Hub.run has taken the registration of c
WasRegistered(c) == cstate[c] \in {"reading", "unregistering", "gone"}

C33_ActiveIffOpen ==
    \A c \in Clients :
        /\ WasRegistered(c) => (c \in clients <=> sendOpen[c])
        /\ ~WasRegistered(c) => (c \notin clients /\ sendOpen[c])
        /\ closes[c] <= 1
        /\ sendOpen[c] <=> closes[c] = 0

\* a queue that gains an event was open and stays open
NoSendOnClosed ==
    \A c \in Clients :
        Len(send'[c]) > Len(send[c]) => (sendOpen[c] /\ sendOpen'[c])

\* Hub.run takes the unregister request of a subscriber it has evicted
LateUnregister(c) ==
    /\ cstate[c] = "unregistering" /\ cstate'[c] = "gone"
    /\ c \notin clients

LateUnregisterIsNoOp ==
    \A c \in Clients :
        LateUnregister(c) =>
            /\ clients' = clients
            /\ sendOpen' = sendOpen /\ closes' = closes
            /\ send' = send /\ broadcast' = broadcast

C33_RegistrationMatchesQueue ==
    /\ []C33_ActiveIffOpen
    /\ [][NoSendOnClosed /\ LateUnregisterIsNoOp]_allVars

\* the hub evicted the subscriber on a full queue while readPump was still
\* reading; readPump has failed since, and its unregister request is pending
C33_Witness ==
    \E c \in Clients :
        /\ cstate[c] = "unregistering"
        /\ c \notin clients /\ ~sendOpen[c]
        /\ closes[c] = 1
        /\ \E d \in clients : d # c /\ sendOpen[d]

(***************************************************************************)
(* C34: in capture mode the hard limit is checked before the assertions.   *)
(* An event that brings bufferBytes to maxBufferBytes ends the session     *)
(* with the fatal error even when it matches a success or failure          *)
(* assertion, and it is in the buffer when the fatal error is raised.      *)
(***************************************************************************)
\* the capture handler takes event m in this step (the SSE handler only
\* gets events that decode and that --event allows)
CaptureTakes(m) ==
    /\ cfg.mode = "capture"
    /\ \/ WsRecv(m)
       \/ /\ SseEvent(m)
          /\ Msg(m).valid /\ eventAllowed(cfg.Events, Msg(m).Event)

\* m brings the total to the hard limit
ReachesLimit(m) == bufferBytes + Msg(m).len >= maxBufferBytes

LimitBeforeAssertions ==
    \A m \in MsgNames :
        (CaptureTakes(m) /\ ReachesLimit(m)) =>
            /\ buffer' = Append(buffer, m)
            /\ bufferBytes' = bufferBytes + Msg(m).len
            /\ done' = "fatal"
            /\ lastEval' = lastEval

\* while the fatal error is raised, the last buffered event is the one that
\* reached the limit
FatalHasEvent ==
    (done = "fatal" \/ runErr = "fatal") =>
        /\ cfg.mode = "capture"
        /\ buffer # <<>>
        /\ bufferBytes >= maxBufferBytes
        /\ bufferBytes - Msg(buffer[Len(buffer)]).len < maxBufferBytes

\* a raised fatal error is not replaced by the outcome of an assertion: the
\* session ends with it, unless the timeout or the cancellation is taken by
\* the select in which it is pending
FatalStays ==
    done = "fatal" =>
        /\ done' \in {"fatal", "empty"}
        /\ buffer' = buffer /\ lastEval' = lastEval
        /\ runErr' # runErr => runErr' \in {"fatal", "exit124", "canceled"}

C34_LimitBeforeAssertions ==
    /\ []FatalHasEvent
    /\ [][LimitBeforeAssertions]_allVars
    /\ [][FatalStays]_allVars

\* the event that reached the limit matches the success rule (and the
\* failure rule); the session ended with the fatal error and exit code 1
C34_Witness ==
    /\ cfg.mode = "capture"
    /\ cfg.SuccessAssertions # <<>>
    /\ buffer = <<"none", "both">>
    /\ evaluate("both") = "exit0"
    /\ runErr = "fatal"
    /\ mainPc = "exited" /\ exitCode = 1

(***************************************************************************)
(* C35: the webhook handler never blocks on the hub.  When h.broadcast is  *)
(* full, the delivery is dropped for all subscribers, the drop is logged,  *)
(* and the response is still 200.                                          *)
(***************************************************************************)

\* the deliveries with a "broadcast dropped" line in the log
DroppedIds == {logged[i].delivery :
                  i \in {j \in 1..Len(logged) : logged[j].kind = "dropped"}}

\* a request that passes the signature check and can be marshalled arrives
\* while h.broadcast is full
FullOnArrival ==
    /\ nextId' = nextId + 1
    /\ Approved(request') /\ IsJSON(request'.body)
    /\ Len(broadcast) >= BroadcastCap

\* the handler returns whatever the state of the hub: a further request is
\* handled in one step, also when h.broadcast is full
HandlerNeverBlocks ==
    nextId < MaxDeliveries =>
        \A cat \in Categories : ENABLED WebhookRequest(cat, "b1", <<>>, <<>>)

\* the step that handles such a request leaves h.broadcast and every c.send
\* as they are, logs the drop, and answers 200
DropStep ==
    FullOnArrival =>
        /\ broadcast' = broadcast
        /\ send' = send /\ clients' = clients
        /\ nextId' \in DroppedIds'
        /\ responses' = Append(responses, 200)

\* a drop is logged only for a delivery that met a full queue
DropOnlyWhenFull ==
    DroppedIds' # DroppedIds =>
        /\ FullOnArrival
        /\ DroppedIds' = DroppedIds \cup {nextId'}

\* a dropped delivery is in no queue: no subscriber will be sent it
DroppedForAll ==
    \A id \in DroppedIds :
        /\ responses[id] = 200
        /\ \A i \in 1..Len(broadcast) : broadcast[i].id # id
        /\ \A c \in Clients :
              \A i \in 1..Len(send[c]) : send[c][i].id # id

\* C35: a request is handled in one step whatever the hub's queue holds; a
\* delivery that arrives while h.broadcast is full is answered 200, is
\* logged as dropped, and reaches no queue of any subscriber then or later
C35_HandlerNeverBlocks ==
    /\ [](HandlerNeverBlocks /\ DroppedForAll)
    /\ [][DropStep /\ DropOnlyWhenFull]_allVars

\* with two registered subscribers, the third delivery arrived while the
\* first two were still in h.broadcast: it was dropped, logged and answered
\* 200, and a later step of the hub has passed the first delivery on to both
C35_Witness ==
    /\ clients = Clients
    /\ nextId = 3 /\ responses = <<200, 200, 200>>
    /\ DroppedIds = {3}
    /\ Len(broadcast) = 1 /\ broadcast[1].id = 2
    /\ \A c \in Clients : Len(send[c]) = 1
    /\ \A c \in Clients : send[c][1].id = 1

(***************************************************************************)
(* C36: whenever the capture buffer is flushed, the task that appends to   *)
(* it has already stopped; nothing is appended during or after a flush,    *)
(* on the assertion-match path and on the timeout path.                    *)
(***************************************************************************)

\* the task that appends to the buffer has returned: the reader goroutine of
\* readLoopCapture, or sse.Client.Run in the goroutine of runWithTimeout
AppenderStopped ==
    IF cfg.transport = "ws" THEN rdPc # "reading" ELSE loopPc = "returned"

\* the step in which RunCapture gets an exit outcome and dumps the buffer
Flushing == runErr = "none" /\ IsExit(runErr')

\* the flush takes place with the appender stopped, and writes the buffer
FlushAfterStop ==
    Flushing => /\ AppenderStopped
                /\ AppenderStopped'
                /\ buffer' = buffer
                /\ out' = buffer

\* after the flush the buffer stays as it was written
NoAppendAfterFlush ==
    IsExit(runErr) => /\ out = buffer
                      /\ AppenderStopped

\* C36: a step that flushes the capture buffer starts and ends with the
\* appending task stopped and leaves the buffer as it is, and from then on
\* the buffer is what was written: no event is appended during or after it
C36_ReaderStoppedAtFlush ==
    /\ []NoAppendAfterFlush
    /\ [][FlushAfterStop]_allVars
    /\ [][IsExit(runErr) => buffer' = buffer]_allVars

\* the WebSocket session ended on the timeout path although its last event
\* matches a success assertion: the reader's result was dropped by the wait
\* on done, and the flush wrote both events
C36_Witness ==
    /\ cfg.transport = "ws" /\ cfg.SuccessAssertions # <<>>
    /\ runErr = "exit124"
    /\ buffer = <<"none", "succ">> /\ out = buffer
    /\ evaluate("succ") = "exit0"
    /\ rdPc = "exited"

(***************************************************************************)
(* C37: if writing the capture buffer fails during the flush, RunCapture   *)
(* returns the write error in place of the exit outcome that triggered the *)
(* flush, and the process exits with code 1, not with 0 or 124.            *)
(***************************************************************************)

\* the step in which RunCapture has an exit outcome in hand and dumps: the
\* step that ends the session after an assertion matched or the timeout
\* fired
DumpStep ==
    /\ runErr = "none" /\ runErr' # "none"
    /\ runErr' \in {"exit0", "exit1", "exit124", "dumpErr"}

\* a dump that fails returns the write error and no exit outcome; one that
\* succeeds returns the outcome with every line written
DumpErrorReplacesOutcome ==
    DumpStep =>
        IF dumpFails
        THEN /\ runErr' = "dumpErr"
             /\ Len(out') < Len(buffer)
        ELSE /\ IsExit(runErr')
             /\ out' = buffer

\* the write error is returned only by a dump that failed
DumpErrorOnlyFromDump ==
    runErr = "dumpErr" =>
        /\ cfg.mode = "capture" /\ ~stdoutOk /\ buffer # <<>>
        /\ Len(out) < Len(buffer)

\* main exits with 1 for the write error; a signal taken before RunCapture
\* returned makes it 130 or 143; it is never 0 or 124
WriteErrorExitsOne ==
    (runErr = "dumpErr" /\ mainPc = "exited") =>
        /\ exitCode \notin {0, 124}
        /\ sig = "none" => exitCode = 1

\* C37: when a write of dumpBuffer fails, the session ends with the write
\* error whatever outcome triggered the flush, and the process then exits
\* with code 1 (never with 0 or 124)
C37_DumpErrorReturned ==
    /\ [](DumpErrorOnlyFromDump /\ WriteErrorExitsOne)
    /\ [][DumpErrorReplacesOutcome]_allVars

\* a success assertion matched the second event, the dump failed after the
\* first line, and the process exited with code 1
C37_Witness ==
    /\ cfg.SuccessAssertions # <<>>
    /\ buffer = <<"none", "succ">> /\ lastEval.verdict = "exit0"
    /\ out = <<"none">>
    /\ runErr = "dumpErr"
    /\ mainPc = "exited" /\ exitCode = 1 /\ sig = "none"

====
